---------------------------- MODULE Spec2Model ----------------------------
(***************************************************************************)
(* Model of CN-Project/main.py: the per-flow TCP congestion control state  *)
(* machine (Packet.update_cwnd, handle_congestion_control and the handlers *)
(* it calls), the event recorder (record_packet_event,                     *)
(* record_packet_event_dropped) and the router (dijkstra_shortest_path)    *)
(* over the editable node/connection topology.                             *)
(*                                                                         *)
(* Units.  cwnd and ssthresh are Python floats; they are modelled as exact *)
(* rationals [n, d] in lowest terms.  Node congestion moves in steps of    *)
(* 0.1 and is kept in tenths (70 is 7.0).  rtt is kept in tenths of a      *)
(* millisecond.                                                            *)
(***************************************************************************)
EXTENDS Integers, Sequences, FiniteSets, Bags, TLC

VARIABLES
    nodes,                 \* self.nodes: sequence of node records, in insertion order
    selected_node,         \* self.selected_node: index of the node clicked first, or 0
    packets,               \* self.packets: sequence of Packet records
    packet_events,         \* self.packet_events: the event log
    packet_counter,        \* self.packet_counter
    congestion_algorithm,  \* self.congestion_algorithm
    route,                 \* the value the last dijkstra_shortest_path call returned
    simulation_running,    \* self.simulation_running
    manual_packet_mode,    \* self.manual_packet_mode
    traffic_load,          \* self.traffic_load
    max_packets,           \* self.max_packets
    routing_stats,         \* self.routing_stats
    pending,               \* the callbacks root.after has scheduled and not yet run:
                           \* a bag, one copy for each call of root.after
    csvfile,               \* what the last export_trace wrote and whether it succeeded
    stale_connections,     \* the nodes of self.nodes in the neighbour list of the
                           \* removed node that self.selected_node kept (see Stale)
    redraw_scheduled,      \* self.redraw_scheduled
    draw_stack,            \* the calls of draw_network that passed the guard and
                           \* have not returned, outermost first: the statement
                           \* each one stands at
    hist                   \* history of the last operation (read by the properties only)

\* the simulator's run state, untouched by the flow, recorder and router steps
sim == <<simulation_running, manual_packet_mode, traffic_load, max_packets,
         routing_stats, pending, csvfile, stale_connections, redraw_scheduled,
         draw_stack>>

vars == <<nodes, selected_node, packets, packet_events, packet_counter,
          congestion_algorithm, route, simulation_running, manual_packet_mode,
          traffic_load, max_packets, routing_stats, pending, csvfile,
          stale_connections, redraw_scheduled, draw_stack, hist>>

--------------------------------------------------------------------------
(* Bounds of the model *)

\* the longest path a flow is followed on has MaxHops hop-entries
MaxHops == 6
\* a flow is followed while the denominator of its cwnd is at most MaxDen
MaxDen == 300
\* nodes and connections a topology is built up to
MaxNodes == 4
MaxEdges == 4
\* appends followed in the event recorder specification
MaxAppends == 3
\* timer callbacks and user commands followed in the simulator specifications
MaxTicks == 3
MaxCommands == 2

(* Program constants *)

\* the cap of the event log
MaxEvents == 500
\* float('infinity')
Infinity == 999999
\* the thresholds of handle_congestion_control, in tenths
TimeoutThreshold == 90
DupAckThreshold == 70
InflationThreshold == 50
\* the duplicate ACKs that fire fast retransmit
DupAckLimit == 3
\* the initial slow start threshold of a Packet
InitialSsthresh == 64
\* self.max_packets = 50
InitialMaxPackets == 50

\* node.latency values the model draws (random.randint(5, 50))
LatencyValues == {10, 20}
\* accumulator values at a hop-entry, in tenths: each band and its edges
CongestionValues == {0, 50, 51, 70, 71, 90, 91}
Algorithms == {"reno", "tahoe"}

--------------------------------------------------------------------------
(* Exact rationals for the float fields cwnd and ssthresh *)

RECURSIVE GCD(_, _)
GCD(a, b) == IF b = 0 THEN a ELSE GCD(b, a % b)

Rat(n, d) == LET g == GCD(n, d) IN [n |-> n \div g, d |-> d \div g]
RInt(k) == [n |-> k, d |-> 1]
RAdd(a, b) == Rat(a.n * b.d + b.n * a.d, a.d * b.d)
RLess(a, b) == a.n * b.d < b.n * a.d
RLeq(a, b) == a.n * b.d <= b.n * a.d
RMin(a, b) == IF RLeq(a, b) THEN a ELSE b
RMax(a, b) == IF RLess(a, b) THEN b ELSE a
RDouble(a) == Rat(2 * a.n, a.d)
RHalf(a) == Rat(a.n, 2 * a.d)
RInv(a) == [n |-> a.d, d |-> a.n]

--------------------------------------------------------------------------
(* Packet *)

\* Packet.__init__: the congestion control attributes of a new flow
NewPacket(id) ==
    [packet_id |-> id,
     current_index |-> 0,
     cwnd |-> RInt(1),
     ssthresh |-> RInt(InitialSsthresh),
     phase |-> "slow_start",
     dup_ack_count |-> 0,
     rtt |-> 0,
     lost |-> FALSE,
     retransmitted |-> FALSE]

\* Packet.set_phase
set_phase(packet, phase_name) == [packet EXCEPT !.phase = phase_name]

\* update_cwnd with slow start growing by one segment instead of doubling
update_cwnd_additive(packet, algorithm) ==
    IF packet.phase = "slow_start"
    THEN LET c == RMin(RAdd(packet.cwnd, RInt(1)), packet.ssthresh)
         IN [packet EXCEPT !.cwnd = c,
                           !.phase = IF RLeq(packet.ssthresh, c)
                                     THEN "congestion_avoidance" ELSE @]
    ELSE IF packet.phase = "congestion_avoidance"
    THEN [packet EXCEPT !.cwnd = RAdd(@, RInv(RMax(@, RInt(1))))]
    ELSE IF packet.phase = "fast_recovery" /\ algorithm = "reno"
    THEN [packet EXCEPT !.cwnd = RAdd(@, RInt(1))]
    ELSE packet

\* Packet.update_cwnd
update_cwnd(packet, algorithm) ==
    IF packet.phase = "slow_start"
    THEN LET c == RMin(RDouble(packet.cwnd), packet.ssthresh)
         IN [packet EXCEPT !.cwnd = c,
                           !.phase = IF RLeq(packet.ssthresh, c)
                                     THEN "congestion_avoidance" ELSE @]
    ELSE IF packet.phase = "congestion_avoidance"
    THEN [packet EXCEPT !.cwnd = RAdd(@, RInv(RMax(@, RInt(1))))]
    ELSE IF packet.phase = "fast_recovery" /\ algorithm = "reno"
    THEN [packet EXCEPT !.cwnd = RAdd(@, RInt(1))]
    ELSE packet

\* handle_fast_retransmit_reno inflating the window by two segments only
handle_fast_retransmit_reno_short(packet) ==
    LET s == RMax(RHalf(packet.cwnd), RInt(2))
    IN [packet EXCEPT !.ssthresh = s,
                      !.cwnd = RAdd(s, RInt(2)),
                      !.phase = "fast_recovery",
                      !.retransmitted = TRUE,
                      !.dup_ack_count = 0]

\* handle_fast_retransmit_reno left in the phase it sets first
handle_fast_retransmit_reno_marked(packet) ==
    LET marked == set_phase(packet, "fast_retransmit")
        s == RMax(RHalf(marked.cwnd), RInt(2))
    IN [marked EXCEPT !.ssthresh = s,
                      !.cwnd = RAdd(s, RInt(3)),
                      !.retransmitted = TRUE,
                      !.dup_ack_count = 0]

\* handle_fast_retransmit_reno: set_phase("fast_retransmit"), the two
\* windows, set_phase("fast_recovery"), the flag and the counter
handle_fast_retransmit_reno(packet) ==
    LET marked == set_phase(packet, "fast_retransmit")
        s == RMax(RHalf(marked.cwnd), RInt(2))
        halved == [marked EXCEPT !.ssthresh = s, !.cwnd = RAdd(s, RInt(3))]
    IN [set_phase(halved, "fast_recovery") EXCEPT !.retransmitted = TRUE,
                                                  !.dup_ack_count = 0]

\* handle_fast_retransmit_tahoe left in the phase Reno moves to
handle_fast_retransmit_tahoe_recovering(packet) ==
    [packet EXCEPT !.ssthresh = RMax(RHalf(packet.cwnd), RInt(2)),
                   !.cwnd = RInt(1),
                   !.phase = "fast_recovery",
                   !.retransmitted = TRUE,
                   !.dup_ack_count = 0]

\* handle_fast_retransmit_tahoe: set_phase("fast_retransmit"), the two
\* windows, set_phase("slow_start"), the flag and the counter
handle_fast_retransmit_tahoe(packet) ==
    LET marked == set_phase(packet, "fast_retransmit")
        halved == [marked EXCEPT !.ssthresh = RMax(RHalf(marked.cwnd), RInt(2)),
                                 !.cwnd = RInt(1)]
    IN [set_phase(halved, "slow_start") EXCEPT !.retransmitted = TRUE,
                                               !.dup_ack_count = 0]

\* handle_timeout_reno without the floor of 2 on ssthresh
handle_timeout_reno_nofloor(packet) ==
    [packet EXCEPT !.ssthresh = RHalf(packet.cwnd),
                   !.cwnd = RInt(1),
                   !.phase = "slow_start",
                   !.lost = TRUE,
                   !.dup_ack_count = 0]

\* handle_timeout_reno
handle_timeout_reno(packet) ==
    [packet EXCEPT !.ssthresh = RMax(RHalf(packet.cwnd), RInt(2)),
                   !.cwnd = RInt(1),
                   !.phase = "slow_start",
                   !.lost = TRUE,
                   !.dup_ack_count = 0]

\* handle_timeout_tahoe that restarts slow start from the window it found
handle_timeout_tahoe_keeping(packet) ==
    [packet EXCEPT !.ssthresh = RMax(RHalf(packet.cwnd), RInt(2)),
                   !.phase = "slow_start",
                   !.lost = TRUE,
                   !.dup_ack_count = 0]

\* handle_timeout_tahoe that does not mark the flow lost
handle_timeout_tahoe_unmarked(packet) ==
    [packet EXCEPT !.ssthresh = RMax(RHalf(packet.cwnd), RInt(2)),
                   !.cwnd = RInt(1),
                   !.phase = "slow_start",
                   !.dup_ack_count = 0]

\* handle_timeout_tahoe
handle_timeout_tahoe(packet) ==
    [packet EXCEPT !.ssthresh = RMax(RHalf(packet.cwnd), RInt(2)),
                   !.cwnd = RInt(1),
                   !.phase = "slow_start",
                   !.lost = TRUE,
                   !.dup_ack_count = 0]

\* the normal ACK path that lets the window grow after it left fast recovery
normal_ack_growing(p, algorithm) ==
    LET q == [p EXCEPT !.dup_ack_count = 0]
    IN IF q.phase = "fast_recovery" /\ algorithm = "reno"
       THEN [packet |-> update_cwnd([q EXCEPT !.cwnd = q.ssthresh,
                                              !.phase = "congestion_avoidance"],
                                    algorithm),
             events |-> <<"exit_fast_recovery", "ack_received">>]
       ELSE LET u == update_cwnd(q, algorithm)
            IN IF RLess(q.cwnd, u.ssthresh) /\ RLeq(u.ssthresh, u.cwnd)
               THEN [packet |-> [u EXCEPT !.phase = "congestion_avoidance"],
                     events |-> <<"phase_transition_CA", "ack_received">>]
               ELSE [packet |-> u, events |-> <<"ack_received">>]

\* handle_congestion_control, CASE 4: the normal ACK path
normal_ack(p, algorithm) ==
    LET q == [p EXCEPT !.dup_ack_count = 0]
    IN IF q.phase = "fast_recovery" /\ algorithm = "reno"
       THEN [packet |-> [q EXCEPT !.cwnd = q.ssthresh,
                                  !.phase = "congestion_avoidance"],
             events |-> <<"exit_fast_recovery", "ack_received">>]
       ELSE LET u == update_cwnd(q, algorithm)
            IN IF RLess(q.cwnd, u.ssthresh) /\ RLeq(u.ssthresh, u.cwnd)
               THEN [packet |-> [u EXCEPT !.phase = "congestion_avoidance"],
                     events |-> <<"phase_transition_CA", "ack_received">>]
               ELSE [packet |-> u, events |-> <<"ack_received">>]

\* handle_congestion_control with CASE 3 taken in every phase
handle_congestion_control_inflating(packet, current_node, algorithm) ==
    LET p == [packet EXCEPT !.rtt = current_node.latency * 10
                                    + current_node.congestion * 5]
    IN IF current_node.congestion > TimeoutThreshold
       THEN [packet |-> IF algorithm = "reno" THEN handle_timeout_reno(p)
                        ELSE handle_timeout_tahoe(p),
             events |-> <<"timeout">>]
       ELSE IF current_node.congestion > DupAckThreshold
       THEN LET q == [p EXCEPT !.dup_ack_count = @ + 1]
            IN IF q.dup_ack_count >= DupAckLimit
               THEN [packet |-> IF algorithm = "reno"
                                THEN handle_fast_retransmit_reno(q)
                                ELSE handle_fast_retransmit_tahoe(q),
                     events |-> <<"fast_retransmit">>]
               ELSE [packet |-> q, events |-> <<>>]
       ELSE IF /\ current_node.congestion > InflationThreshold
               /\ algorithm = "reno"
       THEN [packet |-> [p EXCEPT !.cwnd = RAdd(@, RInt(1))],
             events |-> <<"cwnd_inflation">>]
       ELSE normal_ack(p, algorithm)

\* handle_congestion_control: the flow after the evaluation and the event
\* kinds it hands to record_packet_event, in order
handle_congestion_control(packet, current_node, algorithm) ==
    LET p == [packet EXCEPT !.rtt = current_node.latency * 10
                                    + current_node.congestion * 5]
    IN IF current_node.congestion > TimeoutThreshold
       THEN [packet |-> IF algorithm = "reno" THEN handle_timeout_reno(p)
                        ELSE handle_timeout_tahoe(p),
             events |-> <<"timeout">>]
       ELSE IF current_node.congestion > DupAckThreshold
       THEN LET q == [p EXCEPT !.dup_ack_count = @ + 1]
            IN IF q.dup_ack_count >= DupAckLimit
               THEN [packet |-> IF algorithm = "reno"
                                THEN handle_fast_retransmit_reno(q)
                                ELSE handle_fast_retransmit_tahoe(q),
                     events |-> <<"fast_retransmit">>]
               ELSE [packet |-> q, events |-> <<>>]
       ELSE IF /\ current_node.congestion > InflationThreshold
               /\ p.phase = "fast_recovery"
               /\ algorithm = "reno"
       THEN [packet |-> [p EXCEPT !.cwnd = RAdd(@, RInt(1))],
             events |-> <<"cwnd_inflation">>]
       ELSE normal_ack(p, algorithm)

--------------------------------------------------------------------------
(* EventRecorder *)

ImportantEvents ==
    {"created", "delivered", "dropped", "timeout", "fast_retransmit",
     "exit_fast_recovery", "manual_created"}

\* the last MaxEvents entries of a log: self.packet_events[-500:]
KeepLast(log) ==
    IF Len(log) > MaxEvents
    THEN SubSeq(log, Len(log) - MaxEvents + 1, Len(log))
    ELSE log

\* record_packet_event with the sampling applied to every kind of event
record_packet_event_sampling_all(log, packet, event_type, node_congestion, discard) ==
    IF discard
    THEN log
    ELSE KeepLast(Append(log,
             [packet_id |-> packet.packet_id,
              cwnd |-> packet.cwnd,
              phase |-> packet.phase,
              rtt |-> packet.rtt,
              event_type |-> event_type,
              node_congestion |-> node_congestion]))

\* record_packet_event; discard is the outcome random.random() > 0.10 of the
\* sampling draw, node_congestion the accumulator of path[current_index]
record_packet_event(log, packet, event_type, node_congestion, discard) ==
    IF event_type \notin ImportantEvents /\ discard
    THEN log
    ELSE KeepLast(Append(log,
             [packet_id |-> packet.packet_id,
              cwnd |-> packet.cwnd,
              phase |-> packet.phase,
              rtt |-> packet.rtt,
              event_type |-> event_type,
              node_congestion |-> node_congestion]))

\* record_packet_event_dropped
record_packet_event_dropped(log, packet_id) ==
    Append(log,
        [packet_id |-> packet_id,
         cwnd |-> RInt(0),
         phase |-> "dropped",
         rtt |-> 0,
         event_type |-> "dropped",
         node_congestion |-> 0])

\* the record_packet_event calls of one handle_congestion_control evaluation
\* (at most two), each with its own sampling draw
record_all(log, packet, events, node_congestion, discard1, discard2) ==
    LET l1 == IF Len(events) >= 1
              THEN record_packet_event(log, packet, events[1], node_congestion, discard1)
              ELSE log
    IN IF Len(events) >= 2
       THEN record_packet_event(l1, packet, events[2], node_congestion, discard2)
       ELSE l1

--------------------------------------------------------------------------
(* The flow state machine under every sequence of hop-entry evaluations *)

\* the band of handle_congestion_control a hop-entry falls in
Band(c) ==
    IF c > TimeoutThreshold THEN "timeout"
    ELSE IF c > DupAckThreshold THEN "dup"
    ELSE IF c > InflationThreshold THEN "inflation"
    ELSE "normal"

\* the thresholds of NetworkNode.get_congestion_level, in tenths
LowLevel == 10
MediumLevel == 30
HighLevel == 50

\* NetworkNode.get_congestion_level
get_congestion_level(node) ==
    IF node.congestion <= LowLevel THEN "low"
    ELSE IF node.congestion <= MediumLevel THEN "medium"
    ELSE IF node.congestion <= HighLevel THEN "high"
    ELSE "critical"

\* NetworkNode.__init__
Range(f) == {f[i] : i \in DOMAIN f}

\* routing_stats as __init__ and reset_network set it
NoRoutingStats ==
    [total_packets |-> 0, hops_sum |-> 0, min_hops |-> Infinity, max_hops |-> 0,
     path_history |-> <<>>]

\* the run state CloudNetworkSimulator.__init__ sets: paused, load "medium"
\* with the cap of 50 flows, nothing scheduled, nothing exported
Constructed ==
    /\ simulation_running = FALSE
    /\ manual_packet_mode = FALSE
    /\ traffic_load = "medium"
    /\ max_packets = InitialMaxPackets
    /\ routing_stats = NoRoutingStats
    /\ pending = EmptyBag
    /\ csvfile = [written |-> FALSE, failed |-> FALSE, rows |-> <<>>]
    /\ stale_connections = <<>>
    /\ redraw_scheduled = FALSE
    /\ draw_stack = <<>>

NewNode(lat) == [latency |-> lat, congestion |-> 0, connections |-> <<>>]

\* CloudNetworkSimulator.__init__ and one flow as Packet.__init__ makes it;
\* nodes[1] stands for the node the flow is leaving at each hop-entry (the
\* nodes of the path share the latency drawn here)
FlowInit ==
    /\ Constructed
    /\ \E lat \in LatencyValues : nodes = <<NewNode(lat)>>
    /\ selected_node = 0
    /\ packets = <<NewPacket(1)>>
    /\ packet_events = <<>>
    /\ packet_counter = 1
    /\ congestion_algorithm \in Algorithms
    /\ route = [found |-> FALSE, path |-> <<>>, cost |-> Infinity]
    /\ hist = [op |-> "init", evals |-> 0, only_ack |-> TRUE,
               only_tahoe |-> TRUE,
               run |-> 0, run_cwnd |-> RInt(1), drops |-> 0, log |-> <<>>]

\* what one hop-entry does to the flow: the accumulator of the node being
\* left stands at c (spawn_packet and decay_congestion moved it there) and
\* _draw_packets calls handle_congestion_control(packet, node1); hist.events
\* are the event kinds the evaluation hands to record_packet_event
EvaluateFlow(c) ==
    /\ hist.evals < MaxHops
    /\ packets[1].cwnd.d <= MaxDen
    /\ LET before == packets[1]
           node == [nodes[1] EXCEPT !.congestion = c]
           r == handle_congestion_control(before, node, congestion_algorithm)
           ack == r.events # <<>> /\ r.events[Len(r.events)] = "ack_received"
       IN /\ nodes' = <<node>>
          /\ packets' = <<r.packet>>
          /\ hist' = [op |-> "evaluate",
                      before |-> before,
                      algorithm |-> congestion_algorithm,
                      events |-> r.events,
                      evals |-> hist.evals + 1,
                      only_ack |-> hist.only_ack /\ ack,
                      only_tahoe |-> hist.only_tahoe /\ congestion_algorithm = "tahoe",
                      run |-> IF Band(c) # "dup" THEN 0
                              ELSE IF before.dup_ack_count = 0 THEN 1
                              ELSE IF hist.run > 0 THEN hist.run + 1
                              ELSE 0,
                      run_cwnd |-> IF Band(c) = "dup" /\ before.dup_ack_count = 0
                                   THEN before.cwnd ELSE hist.run_cwnd,
                      drops |-> hist.drops,
                      log |-> packet_events]
    /\ UNCHANGED <<selected_node, packet_counter, congestion_algorithm, route>>
    /\ UNCHANGED sim

\* a hop-entry in the flow specification: the flow is followed over MaxHops
\* evaluations; the log the handed events go to is followed in RecorderSpec
Evaluate(c) ==
    /\ EvaluateFlow(c)
    /\ UNCHANGED packet_events

\* set_congestion_algorithm
set_congestion_algorithm(algorithm) ==
    /\ congestion_algorithm # algorithm
    /\ congestion_algorithm' = algorithm
    /\ hist' = [hist EXCEPT !.op = "set_algorithm"]
    /\ UNCHANGED <<nodes, selected_node, packets, packet_events, packet_counter, route>>
    /\ UNCHANGED sim

FlowNext ==
    \/ \E c \in CongestionValues : Evaluate(c)
    \/ \E a \in Algorithms : set_congestion_algorithm(a)

FlowSpec == FlowInit /\ [][FlowNext]_vars

--------------------------------------------------------------------------
(* The event recorder: the log near its cap under the two recorders *)

\* the log as n earlier manual sends left it: one manual_created event per
\* flow, recorded by spawn_packet when the flow was created
PrefilledLog(n) ==
    [i \in 1..n |->
        [packet_id |-> i, cwnd |-> RInt(1), phase |-> "slow_start", rtt |-> 0,
         event_type |-> "manual_created", node_congestion |-> 0]]

\* the simulator with flow n in flight and a log of n entries
RecorderStart(n) ==
    /\ Constructed
    /\ \E lat \in LatencyValues : nodes = <<NewNode(lat)>>
    /\ selected_node = 0
    /\ packets = <<NewPacket(n)>>
    /\ packet_events = PrefilledLog(n)
    /\ packet_counter = n
    /\ congestion_algorithm \in Algorithms
    /\ route = [found |-> FALSE, path |-> <<>>, cost |-> Infinity]
    /\ hist = [op |-> "init", evals |-> 0, only_ack |-> TRUE,
               only_tahoe |-> TRUE,
               run |-> 0, run_cwnd |-> RInt(1), drops |-> 0, log |-> <<>>]

\* the log at the cap or just below it
RecorderInit == \E n \in {MaxEvents - 1, MaxEvents} : RecorderStart(n)

\* one hop-entry with the record_packet_event calls it makes; discard1 and
\* discard2 are the sampling draws of the first and the second call
RecordedEvaluate(c, discard1, discard2) ==
    /\ hist.evals + hist.drops < MaxAppends
    /\ EvaluateFlow(c)
    /\ packet_events' = record_all(packet_events, packets'[1], hist'.events, c,
                                   discard1, discard2)

\* spawn_packet for a random flow that fails the loss check: the dropped
\* event is recorded under the next id and the counter moves on
spawn_packet_dropped ==
    /\ hist.evals + hist.drops < MaxAppends
    /\ packet_events' = record_packet_event_dropped(packet_events, packet_counter + 1)
    /\ packet_counter' = packet_counter + 1
    /\ hist' = [hist EXCEPT !.op = "drop", !.drops = @ + 1, !.log = packet_events]
    /\ UNCHANGED <<nodes, selected_node, packets, congestion_algorithm, route>>
    /\ UNCHANGED sim

RecorderNext ==
    \/ \E c \in CongestionValues, d1, d2 \in BOOLEAN : RecordedEvaluate(c, d1, d2)
    \/ spawn_packet_dropped

RecorderSpec == RecorderInit /\ [][RecorderNext]_vars

\* fieldnames of the csv.DictWriter of export_trace, in order
ExportFields ==
    <<"time", "packet_id", "cwnd", "phase", "rtt", "event_type", "throughput">>

\* the keys of an event dict: the fields the model's record carries and
\* 'time' and 'throughput', which every event has as well
EventKeys(event) == DOMAIN event \cup {"time", "throughput"}

\* rowdict.get(key): the value under the key; for the two keys the record
\* does not carry the key stands for the value
FieldValue(event, key) == IF key \in DOMAIN event THEN event[key] ELSE key

\* csv.DictWriter._dict_to_list with extrasaction = 'raise' (the default):
\* a key that is no fieldname raises ValueError
dict_to_list(event) ==
    [ok |-> EventKeys(event) \subseteq Range(ExportFields),
     row |-> [k \in DOMAIN ExportFields |-> FieldValue(event, ExportFields[k])]]

\* export_trace: the header is written, then writerows(self.packet_events);
\* an exception leaves the file with what was written before it and shows
\* "Export Failed"
export_trace ==
    /\ LET converted == [i \in DOMAIN packet_events |-> dict_to_list(packet_events[i])]
           bad == {i \in DOMAIN converted : ~converted[i].ok}
       IN csvfile' = IF bad = {}
                     THEN [written |-> TRUE, failed |-> FALSE,
                           rows |-> [i \in DOMAIN converted |-> converted[i].row]]
                     ELSE [written |-> TRUE, failed |-> TRUE, rows |-> <<>>]
    /\ hist' = [hist EXCEPT !.op = "export"]
    /\ UNCHANGED <<nodes, selected_node, packets, packet_events, packet_counter,
                   congestion_algorithm, route, simulation_running,
                   manual_packet_mode, traffic_load, max_packets, routing_stats,
                   pending, stale_connections, redraw_scheduled, draw_stack>>

\* the kinds of event spawn_packet and _draw_packets hand to
\* record_packet_event themselves
CallerEvents == {"created", "manual_created", "delivered", "hop_completed"}

\* a call record_packet_event(packet, event_type) made by spawn_packet or
\* _draw_packets, with the sampling draw discard; hist.drops counts the calls
\* of the recorders made outside the evaluations
record_event(event_type, discard) ==
    /\ hist.evals + hist.drops < MaxAppends
    /\ packet_events' = record_packet_event(packet_events, packets[1], event_type,
                                            nodes[1].congestion, discard)
    /\ hist' = [event_type |-> event_type, discard |-> discard]
                  @@ [hist EXCEPT !.op = "record", !.drops = @ + 1,
                                  !.log = packet_events]
    /\ UNCHANGED <<nodes, selected_node, packets, packet_counter,
                   congestion_algorithm, route>>
    /\ UNCHANGED sim

\* the recorder followed from the first flow, with exports of the log
TraceInit == RecorderStart(1)

TraceNext ==
    \/ \E c \in CongestionValues, d1, d2 \in BOOLEAN : RecordedEvaluate(c, d1, d2)
    \/ spawn_packet_dropped
    \/ \E event_type \in CallerEvents, discard \in BOOLEAN :
          record_event(event_type, discard)
    \/ export_trace

TraceSpec == TraceInit /\ [][TraceNext]_vars

\* C17: exporting the event log succeeds for every reachable log and yields
\* one record per retained event, in insertion order, each with exactly the
\* fields time, flow id, cwnd, phase, rtt, event_type, throughput in that
\* order.
C17_ExportAllEvents ==
    hist.op = "export" =>
        /\ ~csvfile.failed
        /\ Len(csvfile.rows) = Len(packet_events)
        /\ \A i \in DOMAIN csvfile.rows :
              csvfile.rows[i] =
                  [k \in DOMAIN ExportFields |->
                      FieldValue(packet_events[i], ExportFields[k])]

\* C6: the event log holds at most 500 entries whichever recorder appended
\* last, and an append made at the cap evicts the oldest entry and keeps the
\* others in insertion order (k appends of one operation evict the k oldest).
C6_LogCapFIFO ==
    /\ Len(packet_events) <= MaxEvents
    /\ (hist.op \in {"evaluate", "drop"} /\ Len(hist.log) = MaxEvents
            /\ packet_events # hist.log) =>
          \E k \in 1..2 :
              /\ Len(packet_events) = MaxEvents
              /\ SubSeq(packet_events, 1, MaxEvents - k)
                     = SubSeq(hist.log, k + 1, MaxEvents)

--------------------------------------------------------------------------
(* Topology and dijkstra_shortest_path *)

NodeIds(ns) == 1..Len(ns)

\* None, float('infinity')
NoPath == [found |-> FALSE, path |-> <<>>, cost |-> Infinity]

\* "while current: path.append(current); current = previous[current]" and
\* path[::-1]; 0 is None
RECURSIVE reconstruct_path(_, _)
reconstruct_path(previous, current) ==
    IF current = 0 THEN <<>>
    ELSE Append(reconstruct_path(previous, previous[current]), current)

\* the relaxation that overwrites a neighbour's distance without comparing
relax_overwrite(ns, distances, previous, unvisited, current) ==
    LET alt == distances[current] + ns[current].latency
        better == {n \in unvisited : n \in Range(ns[current].connections)}
    IN [distances |-> [n \in NodeIds(ns) |-> IF n \in better THEN alt ELSE distances[n]],
        previous |-> [n \in NodeIds(ns) |-> IF n \in better THEN current ELSE previous[n]]]

\* the relaxation that charges the latency of the node entered
relax_entered(ns, distances, previous, unvisited, current) ==
    LET better == {n \in unvisited : /\ n \in Range(ns[current].connections)
                                     /\ distances[current] + ns[n].latency < distances[n]}
    IN [distances |-> [n \in NodeIds(ns) |-> IF n \in better
                                            THEN distances[current] + ns[n].latency
                                            ELSE distances[n]],
        previous |-> [n \in NodeIds(ns) |-> IF n \in better THEN current ELSE previous[n]]]

\* "for neighbor in current.connections": unvisited is the set after
\* unvisited.remove(current); every neighbour is offered the same alt_distance
relax(ns, distances, previous, unvisited, current) ==
    LET alt == distances[current] + ns[current].latency
        better == {n \in unvisited : /\ n \in Range(ns[current].connections)
                                     /\ alt < distances[n]}
    IN [distances |-> [n \in NodeIds(ns) |-> IF n \in better THEN alt ELSE distances[n]],
        previous |-> [n \in NodeIds(ns) |-> IF n \in better THEN current ELSE previous[n]]]

\* the extraction that takes any reached node, not one of minimum distance
min_unvisited_any(distances, unvisited) ==
    IF \E n \in unvisited : distances[n] < Infinity
    THEN {n \in unvisited : distances[n] < Infinity}
    ELSE unvisited

\* min(unvisited, key=distances): unvisited is a Python set of objects hashed
\* by address, so any node of minimum distance can be the one min returns
min_unvisited(distances, unvisited) ==
    {n \in unvisited : \A k \in unvisited : distances[n] <= distances[k]}

\* the while loop without the break on an infinite minimum distance
RECURSIVE dijkstra_loop_nobreak(_, _, _, _, _)
dijkstra_loop_nobreak(ns, distances, previous, unvisited, destination) ==
    IF unvisited = {} THEN {NoPath}
    ELSE UNION {
        IF current = destination
        THEN {[found |-> TRUE,
               path |-> reconstruct_path(previous, current),
               cost |-> distances[destination]]}
        ELSE LET r == relax(ns, distances, previous, unvisited \ {current}, current)
             IN dijkstra_loop_nobreak(ns, r.distances, r.previous,
                                      unvisited \ {current}, destination)
        : current \in min_unvisited(distances, unvisited)}

\* the while loop of dijkstra_shortest_path: the set of values it can return
RECURSIVE dijkstra_loop(_, _, _, _, _)
dijkstra_loop(ns, distances, previous, unvisited, destination) ==
    IF unvisited = {} THEN {NoPath}
    ELSE UNION {
        IF distances[current] = Infinity THEN {NoPath}
        ELSE IF current = destination
        THEN {[found |-> TRUE,
               path |-> reconstruct_path(previous, current),
               cost |-> distances[destination]]}
        ELSE LET r == relax(ns, distances, previous, unvisited \ {current}, current)
             IN dijkstra_loop(ns, r.distances, r.previous,
                              unvisited \ {current}, destination)
        : current \in min_unvisited(distances, unvisited)}

\* dijkstra_shortest_path over the topology ns
dijkstra_shortest_path(ns, source, destination) ==
    dijkstra_loop(ns,
                  [n \in NodeIds(ns) |-> IF n = source THEN 0 ELSE Infinity],
                  [n \in NodeIds(ns) |-> 0],
                  NodeIds(ns),
                  destination)

\* len(self.connections)
EdgeCount(ns) ==
    LET RECURSIVE Sum(_)
        Sum(i) == IF i = 0 THEN 0 ELSE Len(ns[i].connections) + Sum(i - 1)
    IN Sum(Len(ns)) \div 2

\* CloudNetworkSimulator.__init__: no nodes, no flows
PathInit ==
    /\ Constructed
    /\ nodes = <<>>
    /\ selected_node = 0
    /\ packets = <<>>
    /\ packet_events = <<>>
    /\ packet_counter = 0
    /\ congestion_algorithm = "reno"
    /\ route = NoPath
    /\ hist = [op |-> "init", source |-> 0, destination |-> 0]

\* route and hist hold the last call of dijkstra_shortest_path and what it
\* returned while the topology is the one it ran on; an edit forgets them
Edited(op) ==
    /\ route' = NoPath
    /\ hist' = [op |-> op, source |-> 0, destination |-> 0]

\* add_node
add_node(lat) ==
    /\ Len(nodes) < MaxNodes
    /\ nodes' = Append(nodes, NewNode(lat))
    /\ Edited("add_node")
    /\ UNCHANGED <<selected_node, packets, packet_events, packet_counter,
                   congestion_algorithm>>
    /\ UNCHANGED sim

\* self.selected_node after reset_network: the node clicked first is no
\* longer in self.nodes, the reference to it is kept
Stale == 0 - 1

\* a connection as the generators make it: each node is appended to the
\* neighbour list of the other
link(ns, first, second) ==
    [ns EXCEPT ![first].connections = Append(@, second),
               ![second].connections = Append(@, first)]

\* the second click that appends to the list of the selected node only
connect_one_sided(ns, first, clicked) ==
    IF clicked \in Range(ns[first].connections) THEN ns
    ELSE [ns EXCEPT ![first].connections = Append(@, clicked)]

\* the second click on another node: "if clicked_node not in
\* self.selected_node.connections" both neighbour lists are appended to
connect(ns, first, clicked) ==
    IF clicked \in Range(ns[first].connections) THEN ns
    ELSE [ns EXCEPT ![first].connections = Append(@, clicked),
                    ![clicked].connections = Append(@, first)]

\* on_canvas_click on a node in connection mode: the first click selects, the
\* second connects the two nodes unless they are connected already; after
\* reset_network the node selected can be one that was removed
on_canvas_click(clicked) ==
    /\ clicked \in NodeIds(nodes)
    /\ IF selected_node = 0
       THEN /\ selected_node' = clicked
            /\ nodes' = nodes
            /\ UNCHANGED stale_connections
       ELSE IF selected_node = Stale
       THEN /\ selected_node' = 0
            /\ IF clicked \in Range(stale_connections)
               THEN UNCHANGED <<nodes, stale_connections>>
               ELSE /\ EdgeCount(nodes) < MaxEdges
                    /\ nodes' = [nodes EXCEPT ![clicked].connections = Append(@, Stale)]
                    /\ stale_connections' = Append(stale_connections, clicked)
       ELSE /\ selected_node # clicked
            /\ selected_node' = 0
            /\ connect(nodes, selected_node, clicked) # nodes => EdgeCount(nodes) < MaxEdges
            /\ nodes' = connect(nodes, selected_node, clicked)
            /\ UNCHANGED stale_connections
    /\ Edited("click")
    /\ UNCHANGED <<packets, packet_events, packet_counter, congestion_algorithm>>
    /\ UNCHANGED <<simulation_running, manual_packet_mode, traffic_load,
                   max_packets, routing_stats, pending, csvfile,
                   redraw_scheduled, draw_stack>>

\* a call dijkstra_shortest_path(source, destination) as spawn_packet and the
\* path finder make it, for two different nodes of the topology; the call
\* does not read selected_node and is followed from the states with no first
\* click pending
find_path(source, destination) ==
    /\ source \in NodeIds(nodes) /\ destination \in NodeIds(nodes)
    /\ source # destination
    /\ selected_node = 0
    /\ route' \in dijkstra_shortest_path(nodes, source, destination)
    /\ hist' = [op |-> "find_path", source |-> source, destination |-> destination]
    /\ UNCHANGED <<nodes, selected_node, packets, packet_events, packet_counter,
                   congestion_algorithm>>
    /\ UNCHANGED sim

PathNext ==
    \/ \E lat \in LatencyValues : add_node(lat)
    \/ \E clicked \in 1..MaxNodes : on_canvas_click(clicked)
    \/ \E source, destination \in 1..MaxNodes : find_path(source, destination)

PathSpec == PathInit /\ [][PathNext]_vars

--------------------------------------------------------------------------
(* Topology construction: reset_network, the five preset topologies and  *)
(* the random tree, next to add_node and on_canvas_click                 *)

\* the neighbour lists after the connections of a generator, made in the
\* generator's order: parent.connections.append(node),
\* node.connections.append(parent)
RECURSIVE connect_each(_, _)
connect_each(ns, edges) ==
    IF edges = <<>> THEN ns
    ELSE connect_each(link(ns, Head(edges)[1], Head(edges)[2]),
                      Tail(edges))

\* a generator's result: count nodes appended to the emptied self.nodes, then
\* its connections
generated(count, edges, lat) ==
    connect_each([i \in 1..count |-> NewNode(lat)], edges)

\* create_star_topology: ROUTER1 and num_pcs = 6 PCs, each connected to it
create_star_topology(lat) ==
    generated(7, [i \in 1..6 |-> <<1, i + 1>>], lat)

\* create_mesh_topology: six routers, every node1 with every node2 after it
create_mesh_topology(lat) ==
    generated(6, << <<1, 2>>, <<1, 3>>, <<1, 4>>, <<1, 5>>, <<1, 6>>,
                    <<2, 3>>, <<2, 4>>, <<2, 5>>, <<2, 6>>,
                    <<3, 4>>, <<3, 5>>, <<3, 6>>,
                    <<4, 5>>, <<4, 6>>,
                    <<5, 6>> >>, lat)

\* create_ring_topology: num_nodes = 8, node i with node (i + 1) % num_nodes
create_ring_topology(lat) ==
    generated(8, [i \in 1..8 |-> <<i, (i % 8) + 1>>], lat)

\* create_tree_topology: the cloud, two routers, two switches a router and
\* two PCs a switch
create_tree_topology(lat) ==
    generated(15, << <<1, 2>>, <<1, 3>>,
                     <<2, 4>>, <<2, 5>>, <<3, 6>>, <<3, 7>>,
                     <<4, 8>>, <<4, 9>>, <<5, 10>>, <<5, 11>>,
                     <<6, 12>>, <<6, 13>>, <<7, 14>>, <<7, 15>> >>, lat)

\* create_linear_topology: num_nodes = 7 in a line, node i with node i - 1
create_linear_topology(lat) ==
    generated(7, [i \in 1..6 |-> <<i, i + 1>>], lat)

TopologyTypes == {"star", "mesh", "ring", "tree", "linear"}

\* nodes_per_level of generate_random_tree_topology: levels = randint(3, 4),
\* [1] and then randint(2, min(5, 2 + lvl)) for lvl in range(1, levels)
NodesPerLevel ==
    {<<1, a, b>> : a \in 2..3, b \in 2..4}
      \cup {<<1, a, b, c>> : a \in 2..3, b \in 2..4, c \in 2..5}

\* the number of nodes appended before level lvl (levels counted from 1)
RECURSIVE nodes_before(_, _)
nodes_before(nodes_per_level, lvl) ==
    IF lvl = 1 THEN 0
    ELSE nodes_before(nodes_per_level, lvl - 1) + nodes_per_level[lvl - 1]

\* the connections of one level: node idx of the level with
\* previous_level_nodes[idx % len(previous_level_nodes)]
level_edges(nodes_per_level, lvl) ==
    [i \in 1..nodes_per_level[lvl] |->
        <<nodes_before(nodes_per_level, lvl - 1)
             + ((i - 1) % nodes_per_level[lvl - 1]) + 1,
          nodes_before(nodes_per_level, lvl) + i>>]

\* the connections of the levels from lvl on
RECURSIVE tree_edges(_, _)
tree_edges(nodes_per_level, lvl) ==
    IF lvl > Len(nodes_per_level) THEN <<>>
    ELSE level_edges(nodes_per_level, lvl) \o tree_edges(nodes_per_level, lvl + 1)

\* generate_random_tree_topology
generate_random_tree_topology(nodes_per_level, lat) ==
    generated(nodes_before(nodes_per_level, Len(nodes_per_level) + 1),
              tree_edges(nodes_per_level, 2), lat)

\* what reset_network does to the state: nodes, flows, log, counter and
\* statistics are cleared and the simulation is stopped; self.selected_node
\* is not assigned, so a node selected by a first click stays selected
Cleared(built) ==
    /\ nodes' = built
    /\ packets' = <<>>
    /\ packet_events' = <<>>
    /\ packet_counter' = 0
    /\ simulation_running' = FALSE
    /\ manual_packet_mode' = FALSE
    /\ routing_stats' = NoRoutingStats
    /\ selected_node' = IF selected_node = 0 THEN 0 ELSE Stale
    /\ stale_connections' = <<>>
    /\ UNCHANGED <<congestion_algorithm, traffic_load, max_packets, pending, csvfile,
                   redraw_scheduled, draw_stack>>

\* reset_network
reset_network ==
    /\ nodes # <<>>
    /\ Cleared(<<>>)
    /\ Edited("reset_network")

\* the preset generate_topology builds for topology_type
preset(topology_type, lat) ==
    CASE topology_type = "star" -> create_star_topology(lat)
      [] topology_type = "mesh" -> create_mesh_topology(lat)
      [] topology_type = "ring" -> create_ring_topology(lat)
      [] topology_type = "tree" -> create_tree_topology(lat)
      [] topology_type = "linear" -> create_linear_topology(lat)

\* generate_topology: reset_network(confirm=False), then the preset asked for
generate_topology(topology_type, lat) ==
    /\ Cleared(preset(topology_type, lat))
    /\ Edited("generate_topology")

\* build_random_topology: reset_network(confirm=False), then the random tree
build_random_topology(nodes_per_level, lat) ==
    /\ Cleared(generate_random_tree_topology(nodes_per_level, lat))
    /\ Edited("build_random_topology")

\* the constructed window, nothing placed yet
TopoInit ==
    /\ PathInit
    /\ nodes = <<>>

\* adjacency does not depend on the latencies drawn, one value stands for them
TopoNext ==
    \/ \E lat \in {10} : add_node(lat)
    \/ \E clicked \in NodeIds(nodes) : on_canvas_click(clicked)
    \/ reset_network
    \/ \E topology_type \in TopologyTypes : \E lat \in {10} :
          generate_topology(topology_type, lat)
    \/ \E nodes_per_level \in NodesPerLevel : \E lat \in {10} :
          build_random_topology(nodes_per_level, lat)

TopoSpec == TopoInit /\ [][TopoNext]_vars

--------------------------------------------------------------------------
(* The simulator: flows moving along their paths, the three timer-driven  *)
(* drivers (generation, decay, redraw) and the commands of the user.      *)
(* Progress along a hop is a Python float; it is kept in units of 1/4000  *)
(* so that the speed 0.05 * (1 - congestion * 0.05) is the integer        *)
(* 200 - congestion (congestion in tenths).                               *)

\* progress 1.0
FullProgress == 4000
\* max(0.01, ...)
MinSpeed == 40
\* 0.05 * (1 - congestion * 0.05)
TopSpeed == 200
\* min(10, ...)
MaxCongestion == 100
\* len(self.routing_stats['path_history']) > 100
MaxPathHistory == 100

\* self.root.after(ms, callback): one more pending call of the callback
after(timers, callback) == timers (+) SetToBag({callback})

\* the event loop takes a pending call of the callback and runs it
fired(timers, callback) == timers (-) SetToBag({callback})

\* a call of the callback is pending
due(callback) == BagIn(callback, pending)

\* Packet(source, destination, path, packet_id): the flow with its path (node
\* indices), progress 0 and completed False
Packet(path, id) ==
    NewPacket(id) @@ [path |-> path, progress |-> 0, completed |-> FALSE]

\* the simulator state the handlers below read and write; drawn and
\* evaluated are what the handler did so far: whether _draw_packets ran and
\* the calls of handle_congestion_control it made
World ==
    [nodes |-> nodes, packets |-> packets, packet_events |-> packet_events,
     packet_counter |-> packet_counter, routing_stats |-> routing_stats,
     simulation_running |-> simulation_running,
     manual_packet_mode |-> manual_packet_mode, pending |-> pending,
     drawn |-> FALSE, evaluated |-> <<>>]

\* the state w becomes the next state
Install(w) ==
    /\ nodes' = w.nodes
    /\ packets' = w.packets
    /\ packet_events' = w.packet_events
    /\ packet_counter' = w.packet_counter
    /\ routing_stats' = w.routing_stats
    /\ simulation_running' = w.simulation_running
    /\ manual_packet_mode' = w.manual_packet_mode
    /\ pending' = w.pending

\* speed_factor of _draw_packets
speed_factor(node) ==
    IF TopSpeed - node.congestion > MinSpeed THEN TopSpeed - node.congestion
    ELSE MinSpeed

\* the step that stops short of 1.0
advance_stuck(packet, node1) ==
    IF packet.progress + speed_factor(node1) >= FullProgress
    THEN packet
    ELSE [packet EXCEPT !.progress = @ + speed_factor(node1)]

\* the step that lets progress run past 1.0 without completing the hop
advance_nowrap(packet, node1) ==
    [packet EXCEPT !.progress = @ + speed_factor(node1)]

\* packet.progress += speed_factor; at 1.0 the hop is completed
advance(packet, node1) ==
    IF packet.progress + speed_factor(node1) >= FullProgress
    THEN [packet EXCEPT !.progress = 0, !.current_index = @ + 1]
    ELSE [packet EXCEPT !.progress = @ + speed_factor(node1)]

\* node_congestion of record_packet_event
node_congestion(ns, packet) ==
    IF packet.current_index < Len(packet.path)
    THEN ns[packet.path[packet.current_index + 1]].congestion
    ELSE 0

\* the node the flow is moving to
node_entered(packet) == packet.path[packet.current_index + 2]

\* node1 = packet.path[packet.current_index], the node the flow is leaving
\* (sequences are indexed from 1)
node_left(packet) == packet.path[packet.current_index + 1]

\* "handle congestion only at hop start": if packet.progress == 0
hop_start(packet) == packet.progress = 0

\* the delivered flow marked and left in the active set
with_delivered(kept, packet) ==
    Append(kept, [packet EXCEPT !.completed = TRUE])

\* the flows that stay after a flow at the end of its path was visited: the
\* flow is marked completed and packets_to_remove takes it out
without_delivered(kept, packet) == kept

\* the loop of _draw_packets over list(self.packets): todo are the flows
\* still to visit, kept the visited flows that stay, evaluated the calls of
\* handle_congestion_control made so far; the result is the set of outcomes
\* the sampling draws of record_packet_event allow
RECURSIVE draw_packets_loop(_, _, _, _, _, _)
draw_packets_loop(todo, kept, evaluated, log, ns, algorithm) ==
    IF todo = <<>>
    THEN {[packets |-> kept, packet_events |-> log, evaluated |-> evaluated]}
    ELSE LET packet == Head(todo)
         IN IF packet.current_index >= Len(packet.path) - 1
            THEN draw_packets_loop(Tail(todo), without_delivered(kept, packet),
                     evaluated,
                     record_packet_event(log, packet, "delivered",
                                         node_congestion(ns, packet), FALSE),
                     ns, algorithm)
            ELSE LET node1 == ns[node_left(packet)]
                     r == IF hop_start(packet)
                          THEN handle_congestion_control(packet, node1, algorithm)
                          ELSE [packet |-> packet, events |-> <<>>]
                     calls == IF hop_start(packet)
                              THEN Append(evaluated,
                                       [packet_id |-> packet.packet_id,
                                        node |-> node_left(packet),
                                        progress |-> packet.progress])
                              ELSE evaluated
                     recorded == {record_all(log, r.packet, r.events,
                                             node1.congestion, d1, d2) :
                                      d1 \in BOOLEAN, d2 \in BOOLEAN}
                     moved == advance(r.packet, node1)
                     logs == IF moved.progress = 0
                             THEN {record_packet_event(l, moved, "hop_completed",
                                       node_congestion(ns, moved), d) :
                                       l \in recorded, d \in BOOLEAN}
                             ELSE recorded
                 IN UNION {draw_packets_loop(Tail(todo), Append(kept, moved), calls,
                                             l, ns, algorithm) : l \in logs}

\* _draw_packets
draw_packets(w, algorithm) ==
    {[w EXCEPT !.packets = r.packets, !.packet_events = r.packet_events,
               !.drawn = TRUE, !.evaluated = r.evaluated] :
        r \in draw_packets_loop(w.packets, <<>>, <<>>, w.packet_events, w.nodes,
                                algorithm)}

\* draw_network; too_soon is the outcome of the rate limit
\* now - last_draw_time < min_draw_interval
draw_network(w, too_soon, algorithm) ==
    LET again == IF w.simulation_running \/ w.manual_packet_mode
                 THEN after(w.pending, "draw_network") ELSE w.pending
    IN IF too_soon THEN {[w EXCEPT !.pending = again]}
       ELSE {[d EXCEPT !.pending = again] : d \in draw_packets(w, algorithm)}

\* the same increment under every load
congestion_factor_flat(load) == 10

\* congestion_factor of spawn_packet, in tenths
congestion_factor(load) ==
    IF load = "light" THEN 5 ELSE IF load = "heavy" THEN 20 ELSE 10

\* the same rate under every load
decay_rate_flat(load) == 2

\* decay_rate of decay_congestion, in tenths
decay_rate(load) == IF load = "heavy" THEN 1 ELSE 2

\* the increment without the upper limit
congest_unlimited(node, load) ==
    [node EXCEPT !.congestion = @ + congestion_factor(load)]

\* node.congestion = min(10, node.congestion + congestion_factor)
congest(node, load) ==
    [node EXCEPT !.congestion =
        IF @ + congestion_factor(load) < MaxCongestion
        THEN @ + congestion_factor(load) ELSE MaxCongestion]

\* node.congestion = max(0, node.congestion - decay_rate) where it is positive
decay(node, load) ==
    IF node.congestion > 0
    THEN [node EXCEPT !.congestion =
             IF @ - decay_rate(load) > 0 THEN @ - decay_rate(load) ELSE 0]
    ELSE node

\* the routing statistics part of track_performance; avg_hop_count is kept as
\* the sum hops_sum = avg_hop_count * total_packets
track_performance(stats, latency, hops) ==
    LET hop_count == hops - 1
        history == Append(stats.path_history,
                          [hops |-> hop_count, latency |-> latency])
    IN [total_packets |-> stats.total_packets + 1,
        hops_sum |-> stats.hops_sum + hop_count,
        min_hops |-> IF hop_count < stats.min_hops THEN hop_count ELSE stats.min_hops,
        max_hops |-> IF hop_count > stats.max_hops THEN hop_count ELSE stats.max_hops,
        path_history |-> IF Len(history) > MaxPathHistory THEN Tail(history)
                         ELSE history]

\* spawn_packet without the early return of the loss check
spawn_packet_lossless(w, source, destination, manual, lost, load) ==
    {IF ~r.found THEN [w |-> w, outcome |-> "no_path"]
     ELSE LET id == w.packet_counter + 1
              packet == Packet(r.path, id)
              loss == IF ~manual /\ lost
                      THEN record_packet_event_dropped(w.packet_events, id)
                      ELSE w.packet_events
          IN [w |-> [w EXCEPT
                   !.packet_counter = id,
                   !.packets = Append(@, packet),
                   !.packet_events =
                       record_packet_event(loss, packet,
                           IF manual THEN "manual_created" ELSE "created",
                           w.nodes[r.path[1]].congestion, FALSE),
                   !.nodes = [n \in DOMAIN w.nodes |->
                                 IF n \in Range(r.path) THEN congest(w.nodes[n], load)
                                 ELSE w.nodes[n]],
                   !.routing_stats = track_performance(@, r.cost, Len(r.path))],
              outcome |-> IF ~manual /\ lost THEN "dropped" ELSE "created"]
     : r \in dijkstra_shortest_path(w.nodes, source, destination)}

\* spawn_packet that leaves the counter where it is when the flow is dropped
spawn_packet_reusing(w, source, destination, manual, lost, load) ==
    {IF ~r.found THEN [w |-> w, outcome |-> "no_path"]
     ELSE LET id == w.packet_counter + 1
              packet == Packet(r.path, id)
          IN IF ~manual /\ lost
             THEN [w |-> [w EXCEPT
                      !.packet_events = record_packet_event_dropped(@, id)],
                   outcome |-> "dropped"]
             ELSE [w |-> [w EXCEPT
                      !.packet_counter = id,
                      !.packets = Append(@, packet),
                      !.packet_events =
                          record_packet_event(@, packet,
                              IF manual THEN "manual_created" ELSE "created",
                              w.nodes[r.path[1]].congestion, FALSE),
                      !.nodes = [n \in DOMAIN w.nodes |->
                                    IF n \in Range(r.path) THEN congest(w.nodes[n], load)
                                    ELSE w.nodes[n]],
                      !.routing_stats = track_performance(@, r.cost, Len(r.path))],
                   outcome |-> "created"]
     : r \in dijkstra_shortest_path(w.nodes, source, destination)}

\* spawn_packet(source, destination, manual); lost is the outcome of the
\* loss check random.random() < packet_loss_rate / 100; the result is the
\* set of the states the call can leave (one for each route the router can
\* return), each with the outcome of the call
spawn_packet(w, source, destination, manual, lost, load) ==
    {IF ~r.found THEN [w |-> w, outcome |-> "no_path"]
     ELSE LET id == w.packet_counter + 1
              packet == Packet(r.path, id)
          IN IF ~manual /\ lost
             THEN [w |-> [w EXCEPT
                      !.packet_events = record_packet_event_dropped(@, id),
                      !.packet_counter = id],
                   outcome |-> "dropped"]
             ELSE [w |-> [w EXCEPT
                      !.packet_counter = id,
                      !.packets = Append(@, packet),
                      !.packet_events =
                          record_packet_event(@, packet,
                              IF manual THEN "manual_created" ELSE "created",
                              w.nodes[r.path[1]].congestion, FALSE),
                      !.nodes = [n \in DOMAIN w.nodes |->
                                    IF n \in Range(r.path) THEN congest(w.nodes[n], load)
                                    ELSE w.nodes[n]],
                      !.routing_stats = track_performance(@, r.cost, Len(r.path))],
                   outcome |-> "created"]
     : r \in dijkstra_shortest_path(w.nodes, source, destination)}

\* start_packet_generation that spawns whatever the number of active flows
start_packet_generation_uncapped(w, source, destination, lost, load, cap) ==
    IF w.simulation_running /\ Len(w.nodes) > 1
    THEN {[w |-> [r.w EXCEPT !.pending = after(@, "start_packet_generation")],
           outcome |-> r.outcome] :
              r \in spawn_packet(w, source, destination, FALSE, lost, load)}
    ELSE {[w |-> w, outcome |-> "idle"]}

\* start_packet_generation; source and destination are the random choices
\* (two different nodes)
start_packet_generation(w, source, destination, lost, load, cap) ==
    IF w.simulation_running /\ Len(w.nodes) > 1
    THEN IF Len(w.packets) < cap
         THEN {[w |-> [r.w EXCEPT !.pending = after(@, "start_packet_generation")],
                outcome |-> r.outcome] :
                   r \in spawn_packet(w, source, destination, FALSE, lost, load)}
         ELSE {[w |-> [w EXCEPT !.pending = after(@, "start_packet_generation")],
                outcome |-> "at_cap"]}
    ELSE {[w |-> w, outcome |-> "idle"]}

\* decay_congestion
decay_congestion(w, load) ==
    IF w.simulation_running
    THEN [w EXCEPT !.nodes = [n \in DOMAIN w.nodes |-> decay(w.nodes[n], load)],
                   !.pending = after(@, "decay_congestion")]
    ELSE w

\* schedule_packet_details_updates (the later definition): it shows the
\* details of the manual flow and re-arms itself while manual_packet_mode
schedule_packet_details_updates(w) ==
    IF w.manual_packet_mode
    THEN [w EXCEPT !.pending = after(@, "schedule_packet_details_updates")]
    ELSE w

\* send_manual_packet that pauses the simulation before it validates
send_manual_packet_pausing_first(w, source_name, dest_name, load) ==
    LET paused == [w EXCEPT !.simulation_running = FALSE]
    IN IF Len(w.nodes) < 2 THEN {[w |-> paused, outcome |-> "no_nodes"]}
       ELSE IF source_name = 0 \/ dest_name = 0 \/ source_name = dest_name
       THEN {[w |-> paused, outcome |-> "invalid"]}
       ELSE IF source_name \notin NodeIds(w.nodes) \/ dest_name \notin NodeIds(w.nodes)
       THEN {[w |-> paused, outcome |-> "not_found"]}
       ELSE {IF r.outcome = "created"
             THEN [w |-> schedule_packet_details_updates(r.w), outcome |-> "created"]
             ELSE [w |-> [r.w EXCEPT !.manual_packet_mode = FALSE],
                   outcome |-> "no_path"] :
                r \in spawn_packet([paused EXCEPT !.manual_packet_mode = TRUE],
                                   source_name, dest_name, TRUE, FALSE, load)}

\* send_manual_packet; the names selected in the two dropdowns are given as
\* node indices: 0 is the empty selection, an index past the last node the
\* name of a node that is no longer in self.nodes
send_manual_packet(w, source_name, dest_name, load) ==
    IF Len(w.nodes) < 2 THEN {[w |-> w, outcome |-> "no_nodes"]}
    ELSE IF source_name = 0 \/ dest_name = 0 \/ source_name = dest_name
    THEN {[w |-> w, outcome |-> "invalid"]}
    ELSE IF source_name \notin NodeIds(w.nodes) \/ dest_name \notin NodeIds(w.nodes)
    THEN {[w |-> w, outcome |-> "not_found"]}
    ELSE {IF r.outcome = "created"
          THEN [w |-> schedule_packet_details_updates(r.w), outcome |-> "created"]
          ELSE [w |-> [r.w EXCEPT !.manual_packet_mode = FALSE],
                outcome |-> "no_path"] :
             r \in spawn_packet([w EXCEPT !.simulation_running = FALSE,
                                          !.manual_packet_mode = TRUE],
                                source_name, dest_name, TRUE, FALSE, load)}

\* toggle_simulation: on resume it calls start_packet_generation,
\* decay_congestion and draw_network itself
toggle_simulation(w, source, destination, lost, load, cap, too_soon, algorithm) ==
    LET toggled == [w EXCEPT !.simulation_running = ~@,
                             !.manual_packet_mode = FALSE]
    IN IF toggled.simulation_running
       THEN UNION {
              {[w |-> d, outcome |-> g.outcome] :
                  d \in draw_network(decay_congestion(g.w, load), too_soon, algorithm)}
              : g \in start_packet_generation(toggled, source, destination,
                                              lost, load, cap)}
       ELSE {[w |-> toggled, outcome |-> "paused"]}

\* max_packets of set_traffic_load
load_cap(load_level) == IF load_level = "medium" THEN 80 ELSE 50

LoadLevels == {"light", "medium", "heavy"}

\* the two random choices of start_packet_generation: a source and another
\* node as destination
Endpoints(ns) ==
    IF Len(ns) > 1
    THEN {<<a, b>> : a \in NodeIds(ns), b \in NodeIds(ns)} \ {<<a, a>> : a \in NodeIds(ns)}
    ELSE {<<0, 0>>}

\* what the steps below leave alone
Settings == <<selected_node, congestion_algorithm, route, traffic_load,
              max_packets, csvfile, stale_connections, redraw_scheduled,
              draw_stack>>

\* hist after a step that ended in the state w: the handler that ran, how it
\* ended, the numbers of timer callbacks and user commands so far, whether
\* _draw_packets ran and the evaluations it made
Did(w, op, outcome, ticks, commands) ==
    hist' = [op |-> op, outcome |-> outcome,
             ticks |-> hist.ticks + ticks, commands |-> hist.commands + commands,
             drawn |-> w.drawn, evaluated |-> w.evaluated]

\* hist after a step of a handler that does not draw
Ran(op, outcome, ticks, commands) == Did(World, op, outcome, ticks, commands)

\* the root.after callback start_packet_generation fires
GenerationTimer ==
    /\ due("start_packet_generation")
    /\ hist.ticks < MaxTicks
    /\ \E e \in Endpoints(nodes), lost \in BOOLEAN :
          \E r \in start_packet_generation(
                       [World EXCEPT !.pending = fired(@, "start_packet_generation")],
                       e[1], e[2], lost, traffic_load, max_packets) :
              /\ Install(r.w)
              /\ Ran("start_packet_generation", r.outcome, 1, 0)
    /\ UNCHANGED Settings

\* the root.after callback decay_congestion fires
DecayTimer ==
    /\ due("decay_congestion")
    /\ hist.ticks < MaxTicks
    /\ Install(decay_congestion([World EXCEPT !.pending = fired(@, "decay_congestion")],
                                traffic_load))
    /\ Ran("decay_congestion", "done", 1, 0)
    /\ UNCHANGED Settings

\* the root.after callback draw_network fires
RedrawTimer ==
    /\ due("draw_network")
    /\ hist.ticks < MaxTicks
    /\ \E too_soon \in BOOLEAN :
          \E w \in draw_network([World EXCEPT !.pending = fired(@, "draw_network")],
                                too_soon, congestion_algorithm) :
              /\ Install(w)
              /\ Did(w, "draw_network", IF too_soon THEN "skipped" ELSE "drawn", 1, 0)
    /\ UNCHANGED Settings

\* the root.after callback schedule_packet_details_updates fires
DetailsTimer ==
    /\ due("schedule_packet_details_updates")
    /\ hist.ticks < MaxTicks
    /\ Install(schedule_packet_details_updates(
                   [World EXCEPT !.pending = fired(@, "schedule_packet_details_updates")]))
    /\ Ran("schedule_packet_details_updates", "done", 1, 0)
    /\ UNCHANGED Settings

\* on_canvas_drag of a node outside connection mode: the node moves on the
\* canvas and draw_network is called
on_canvas_drag ==
    /\ nodes # <<>>
    /\ hist.commands < MaxCommands
    /\ \E too_soon \in BOOLEAN :
          \E w \in draw_network(World, too_soon, congestion_algorithm) :
              /\ Install(w)
              /\ Did(w, "on_canvas_drag", IF too_soon THEN "skipped" ELSE "drawn", 0, 1)
    /\ UNCHANGED Settings

\* the Simulate / Pause button
ToggleSimulation ==
    /\ hist.commands < MaxCommands
    /\ \E e \in Endpoints(nodes), lost \in BOOLEAN, too_soon \in BOOLEAN :
          \E r \in toggle_simulation(World, e[1], e[2], lost, traffic_load,
                                     max_packets, too_soon, congestion_algorithm) :
              /\ Install(r.w)
              /\ Did(r.w, "toggle_simulation", r.outcome, 0, 1)
    /\ UNCHANGED Settings

\* the Send button of the manual packet panel
SendManualPacket(source_name, dest_name) ==
    /\ hist.commands < MaxCommands
    /\ \E r \in send_manual_packet(World, source_name, dest_name, traffic_load) :
          /\ Install(r.w)
          /\ Ran("send_manual_packet", r.outcome, 0, 1)
    /\ UNCHANGED Settings

\* set_traffic_load
set_traffic_load(load_level) ==
    /\ hist.commands < MaxCommands
    /\ traffic_load' = load_level
    /\ max_packets' = load_cap(load_level)
    /\ Ran("set_traffic_load", load_level, 0, 1)
    /\ UNCHANGED <<nodes, selected_node, packets, packet_events, packet_counter,
                   congestion_algorithm, route, simulation_running,
                   manual_packet_mode, routing_stats, pending, csvfile,
                   stale_connections, redraw_scheduled, draw_stack>>

\* the topology add_node and on_canvas_click build from three nodes: node 1
\* connected with node 2, node 3 with no connection
TwoLinkedOneApart(lat) ==
    <<[NewNode(lat) EXCEPT !.connections = <<2>>],
      [NewNode(lat) EXCEPT !.connections = <<1>>],
      NewNode(lat)>>

\* the simulator constructed, with that topology
Built(lat) ==
    [nodes |-> TwoLinkedOneApart(lat), packets |-> <<>>, packet_events |-> <<>>,
     packet_counter |-> 0, routing_stats |-> NoRoutingStats,
     simulation_running |-> FALSE, manual_packet_mode |-> FALSE, pending |-> EmptyBag,
     drawn |-> FALSE, evaluated |-> <<>>]

\* the states toggle_simulation leaves it running in, the random flow of the
\* call being for the unconnected pair (1, 3)
Started(lat) ==
    {r.w : r \in toggle_simulation(Built(lat), 1, 3, FALSE, "medium",
                                   InitialMaxPackets, FALSE, "reno")}

\* w after n generation callbacks that each spawn a flow from node 1 to node 2
RECURSIVE Generated(_, _)
Generated(w, n) ==
    IF n = 0 THEN {w}
    ELSE UNION {{r.w : r \in start_packet_generation(
                                 [v EXCEPT !.pending = fired(@, "start_packet_generation")],
                                 1, 2, FALSE, "medium", InitialMaxPackets)}
                : v \in Generated(w, n - 1)}

\* w after the draw_network callbacks that take its flows to the last step
\* of their hop
RECURSIVE Redrawn(_, _)
Redrawn(w, algorithm) ==
    IF \E i \in DOMAIN w.packets :
          \/ w.packets[i].current_index >= Len(w.packets[i].path) - 1
          \/ w.packets[i].progress
                 + speed_factor(w.nodes[w.packets[i].path[w.packets[i].current_index + 1]])
               >= FullProgress
    THEN {w}
    ELSE UNION {Redrawn(d, algorithm) :
                   d \in draw_network([w EXCEPT !.pending = fired(@, "draw_network")],
                                      FALSE, algorithm)}

\* the variables hold the state w and the settings of the constructor, ticks
\* timer callbacks having run
StartsAfter(w, ticks) ==
    /\ nodes = w.nodes
    /\ packets = w.packets
    /\ packet_events = w.packet_events
    /\ packet_counter = w.packet_counter
    /\ routing_stats = w.routing_stats
    /\ simulation_running = w.simulation_running
    /\ manual_packet_mode = w.manual_packet_mode
    /\ pending = w.pending
    /\ selected_node = 0
    /\ congestion_algorithm = "reno"
    /\ route = NoPath
    /\ traffic_load = "medium"
    /\ max_packets = InitialMaxPackets
    /\ csvfile = [written |-> FALSE, failed |-> FALSE, rows |-> <<>>]
    /\ stale_connections = <<>>
    /\ redraw_scheduled = FALSE
    /\ draw_stack = <<>>
    /\ hist = [op |-> "init", outcome |-> "none", ticks |-> ticks, commands |-> 0,
               drawn |-> FALSE, evaluated |-> <<>>]

\* the variables hold the state w and the settings of the constructor
StartsAs(w) == StartsAfter(w, 0)

\* generation, manual sends, decay and load presets, from the simulation
\* running with no flow or with one flow less than the cap
TrafficInit ==
    \E lat \in {10} :
        \E w \in Started(lat) :
            \E n \in {0, InitialMaxPackets - 1} :
                \E v \in Generated(w, n) : StartsAs(v)

TrafficNext ==
    \/ GenerationTimer
    \/ DecayTimer
    \/ \E s, d \in 0..4 : SendManualPacket(s, d)
    \/ \E l \in LoadLevels : set_traffic_load(l)

TrafficSpec == TrafficInit /\ [][TrafficNext]_vars

\* the drivers and the commands, from the simulator paused on the topology
\* or running with one flow at the last step of its hop
SimInit ==
    \E lat \in {10} :
        \/ StartsAs(Built(lat))
        \/ \E w \in Started(lat) :
              \E v \in Generated(w, 1) :
                  \E d \in Redrawn(v, "reno") : StartsAs(d)

SimNext ==
    \/ GenerationTimer
    \/ DecayTimer
    \/ RedrawTimer
    \/ DetailsTimer
    \/ on_canvas_drag
    \/ ToggleSimulation
    \/ \E d \in {2, 3} : SendManualPacket(1, d)

SimSpec == SimInit /\ [][SimNext]_vars

\* the topology buttons while the simulator runs: generate_topology as a
\* command between the timer callbacks
GenerateTopology(topology_type) ==
    /\ \E lat \in {10} : Cleared(preset(topology_type, lat))
    /\ Ran("generate_topology", topology_type, 0, 0)
    /\ UNCHANGED route

\* flows created, dropped, delivered and cleared: the simulation running
\* with one flow, the drivers, manual sends and the topology buttons
IdInit ==
    \E lat \in {10} :
        \E w \in Started(lat) :
            \E v \in Generated(w, 1) : StartsAs(v)

IdNext ==
    \/ GenerationTimer
    \/ RedrawTimer
    \/ \E d \in {2, 3} : SendManualPacket(1, d)
    \/ \E topology_type \in {"linear"} : GenerateTopology(topology_type)

IdSpec == IdInit /\ [][IdNext]_vars

\* the beat of the advance ticks: it changes with every tick, so that a tick
\* that moves no flow is a step all the same
Beat == IF "beat" \in DOMAIN hist THEN 1 - hist.beat ELSE 1

\* the draw_network callback that is not turned away by the rate limit: the
\* tick that runs _draw_packets
AdvanceTick ==
    /\ due("draw_network")
    /\ \E w \in draw_network([World EXCEPT !.pending = fired(@, "draw_network")],
                             FALSE, congestion_algorithm) :
          /\ Install(w)
          /\ hist' = [op |-> "draw_network", outcome |-> "drawn",
                      ticks |-> hist.ticks, commands |-> hist.commands,
                      drawn |-> w.drawn, evaluated |-> w.evaluated,
                      beat |-> Beat]
    /\ UNCHANGED Settings

\* the simulation running after MaxTicks - 1 generation callbacks that each
\* spawned a flow; one more generation or decay callback is followed and the
\* advance tick keeps firing
DeliveryInit ==
    \E lat \in {10} :
        \E w \in Started(lat) :
            \E v \in Generated(w, MaxTicks - 1) : StartsAfter(v, MaxTicks - 1)

DeliveryNext ==
    \/ AdvanceTick
    \/ GenerationTimer
    \/ DecayTimer

\* the advance tick is scheduled: ENABLED <<AdvanceTick>>_vars
TickEnabled == due("draw_network")

\* draw_network re-arms itself with root.after while the simulation runs and
\* the event loop runs every callback that is due: weak fairness of the
\* advance tick, with its enabling condition written out
DeliverySpec ==
    /\ DeliveryInit
    /\ [][DeliveryNext]_vars
    /\ ([]<>(~TickEnabled) \/ []<><<AdvanceTick>>_vars)

\* the admissions under medium load that take a node from 0 to the limit
SaturatingAdmissions == MaxCongestion \div congestion_factor("medium")

\* the simulation running after the generation callbacks that saturated the
\* two linked nodes: their flows at the start of their hop, under severe
\* congestion
LossInit ==
    \E lat \in {10} :
        \E w \in Started(lat) :
            \E v \in Generated(w, SaturatingAdmissions) : StartsAs(v)

LossNext ==
    \/ RedrawTimer
    \/ GenerationTimer
    \/ DecayTimer

LossSpec == LossInit /\ [][LossNext]_vars


\* the calls of draw_network the model follows inside one another
MaxDepth == 2

\* a guard that lets every call through
guard_open(flag) == FALSE

\* "if self.redraw_scheduled: return"
guard(flag) == flag

\* hist after a step of draw_network: the statement that ran, how it ended
\* and how many calls of draw_network were executing when it ran
Stepped(w, op, outcome, ticks) ==
    hist' = [op |-> op, outcome |-> outcome,
             ticks |-> hist.ticks + ticks, commands |-> hist.commands,
             drawn |-> w.drawn, evaluated |-> w.evaluated,
             depth |-> Len(draw_stack)]

\* draw_network from its first statement to "self.last_draw_time = now": the
\* call returns at the guard, is turned away by the rate limit (and re-arms
\* itself), or sets the flag and goes on to the try block; timers is
\* root.after's bag when the call starts
enter_draw_network(timers, too_soon, ticks) ==
    IF guard(redraw_scheduled)
    THEN /\ pending' = timers
         /\ UNCHANGED <<redraw_scheduled, draw_stack>>
         /\ Stepped(World, "draw_network", "guarded", ticks)
    ELSE IF too_soon
    THEN /\ pending' = IF simulation_running \/ manual_packet_mode
                       THEN after(timers, "draw_network") ELSE timers
         /\ UNCHANGED <<redraw_scheduled, draw_stack>>
         /\ Stepped(World, "draw_network", "skipped", ticks)
    ELSE /\ pending' = timers
         /\ redraw_scheduled' = TRUE
         /\ draw_stack' = Append(draw_stack, "update_idletasks")
         /\ Stepped(World, "draw_network", "entered", ticks)

\* what a step of draw_network outside the flow loop leaves alone
Undrawn ==
    <<nodes, selected_node, packets, packet_events, packet_counter,
      congestion_algorithm, route, simulation_running, manual_packet_mode,
      traffic_load, max_packets, routing_stats, csvfile, stale_connections>>

\* the root.after callback draw_network fires while no call of it executes
DrawCall ==
    /\ draw_stack = <<>>
    /\ due("draw_network")
    /\ hist.ticks < MaxTicks
    /\ \E too_soon \in BOOLEAN :
          enter_draw_network(fired(pending, "draw_network"), too_soon, 1)
    /\ UNCHANGED Undrawn

\* draw_network is called while a call of it executes.  The body hands
\* control to Tk at update_idletasks (line 1514, and line 664 inside the
\* flow loop); Tk runs idle handlers only there, and the model lets a call
\* of draw_network come in all the same: the case the guard is written for
NestedDrawCall ==
    /\ draw_stack # <<>>
    /\ Len(draw_stack) < MaxDepth
    /\ \E too_soon \in BOOLEAN : enter_draw_network(pending, too_soon, 0)
    /\ UNCHANGED Undrawn

\* the try block of the innermost call, one step for each of: the geometry
\* check after update_idletasks (small is canvas_width <= 100 or
\* canvas_height <= 100, the return inside try), the flow loop, and the end
\* of the block; finally clears the flag on each way out, and the call that
\* reached the end of the block re-arms itself
DrawStep ==
    /\ draw_stack # <<>>
    /\ LET at == draw_stack[Len(draw_stack)]
           outer == SubSeq(draw_stack, 1, Len(draw_stack) - 1)
       IN \/ /\ at = "update_idletasks"
             /\ \E small \in BOOLEAN :
                   IF small
                   THEN /\ redraw_scheduled' = FALSE
                        /\ draw_stack' = outer
                        /\ Stepped(World, "update_idletasks", "small", 0)
                   ELSE /\ draw_stack' = Append(outer, "_draw_packets")
                        /\ Stepped(World, "update_idletasks", "sized", 0)
                        /\ UNCHANGED redraw_scheduled
             /\ UNCHANGED pending
             /\ UNCHANGED Undrawn
          \/ /\ at = "_draw_packets"
             /\ \E w \in draw_packets(World, congestion_algorithm) :
                   /\ Install(w)
                   /\ Stepped(w, "_draw_packets", "drawn", 0)
             /\ draw_stack' = Append(outer, "_draw_nodes")
             /\ UNCHANGED <<selected_node, congestion_algorithm, route, traffic_load,
                            max_packets, csvfile, stale_connections, redraw_scheduled>>
          \/ /\ at = "_draw_nodes"
             /\ redraw_scheduled' = FALSE
             /\ draw_stack' = outer
             /\ pending' = IF simulation_running \/ manual_packet_mode
                           THEN after(pending, "draw_network") ELSE pending
             /\ Stepped(World, "_draw_nodes", "returned", 0)
             /\ UNCHANGED Undrawn

\* the simulation running with one flow; the generation and decay callbacks
\* run between the calls of draw_network, never inside one
GuardInit ==
    \E lat \in {10} :
        \E w \in Started(lat) :
            \E v \in Generated(w, 1) : StartsAs(v)

GuardNext ==
    \/ DrawCall
    \/ NestedDrawCall
    \/ DrawStep
    \/ (draw_stack = <<>> /\ GenerationTimer)
    \/ (draw_stack = <<>> /\ DecayTimer)

GuardSpec == GuardInit /\ [][GuardNext]_vars

--------------------------------------------------------------------------
(* Properties of the flow state machine, checked under FlowSpec *)

\* C1: after every evaluation of a flow, under every sequence of congestion
\* values and either algorithm, cwnd >= 1 and ssthresh >= 2.
C1_WindowFloors ==
    \A i \in 1..Len(packets) :
        /\ RLeq(RInt(1), packets[i].cwnd)
        /\ RLeq(RInt(2), packets[i].ssthresh)

\* a timeout taken at cwnd = 1 puts both fields on their floors
C1_Witness ==
    /\ hist.op = "evaluate"
    /\ hist.events = <<"timeout">>
    /\ hist.before.cwnd = RInt(1)
    /\ packets[1].cwnd = RInt(1)
    /\ packets[1].ssthresh = RInt(2)

\* C2: a flow whose evaluations all ran under tahoe is never in fast_recovery.
C2_TahoeNeverFastRecovery ==
    hist.only_tahoe => packets[1].phase # "fast_recovery"

\* a tahoe-only flow that fired fast retransmit
C2_Witness ==
    /\ hist.op = "evaluate"
    /\ hist.only_tahoe
    /\ hist.events = <<"fast_retransmit">>
    /\ packets[1].retransmitted

\* C3: an evaluation against a node with congestion > 9 sets ssthresh to
\* max(old cwnd / 2, 2), cwnd to 1, the phase to slow_start, lost to true and
\* the duplicate counter to 0, under either algorithm and from any phase.
C3_Timeout ==
    (hist.op = "evaluate" /\ nodes[1].congestion > 90) =>
        /\ packets[1].ssthresh = RMax(RHalf(hist.before.cwnd), RInt(2))
        /\ packets[1].cwnd = RInt(1)
        /\ packets[1].phase = "slow_start"
        /\ packets[1].lost
        /\ packets[1].dup_ack_count = 0

\* a tahoe timeout that hits a flow in congestion avoidance, not lost so
\* far, with duplicate signals counted
C3_Witness ==
    /\ hist.op = "evaluate"
    /\ nodes[1].congestion > 90
    /\ hist.algorithm = "tahoe"
    /\ hist.before.phase = "congestion_avoidance"
    /\ hist.before.dup_ack_count > 0
    /\ ~hist.before.lost
    /\ packets[1].lost

\* C4: from duplicate counter 0, three consecutive evaluations with
\* congestion in (7, 9] fire fast retransmit on the third (reno:
\* fast_recovery, ssthresh = max(prev_cwnd/2, 2), cwnd = ssthresh + 3; tahoe:
\* slow_start, the same ssthresh, cwnd = 1; retransmitted set and the counter
\* back to 0), and the first two fire nothing.
C4_FastRetransmitOnThird ==
    /\ (hist.op = "evaluate" /\ hist.run \in {1, 2}) =>
          /\ hist.events = <<>>
          /\ packets[1].dup_ack_count = hist.run
          /\ packets[1].cwnd = hist.run_cwnd
          /\ packets[1].cwnd = hist.before.cwnd
          /\ packets[1].ssthresh = hist.before.ssthresh
          /\ packets[1].phase = hist.before.phase
          /\ packets[1].retransmitted = hist.before.retransmitted
          /\ packets[1].lost = hist.before.lost
    /\ (hist.op = "evaluate" /\ hist.run = 3) =>
          /\ hist.events = <<"fast_retransmit">>
          /\ packets[1].ssthresh = RMax(RHalf(hist.run_cwnd), RInt(2))
          /\ packets[1].retransmitted
          /\ packets[1].dup_ack_count = 0
          /\ hist.algorithm = "reno" =>
                /\ packets[1].phase = "fast_recovery"
                /\ packets[1].cwnd = RAdd(packets[1].ssthresh, RInt(3))
          /\ hist.algorithm = "tahoe" =>
                /\ packets[1].phase = "slow_start"
                /\ packets[1].cwnd = RInt(1)
    /\ hist.run \in 0..3

\* the third consecutive signal under reno, on a window above 4
C4_Witness ==
    /\ hist.op = "evaluate"
    /\ hist.run = 3
    /\ hist.algorithm = "reno"
    /\ RLess(RInt(4), hist.run_cwnd)
    /\ packets[1].phase = "fast_recovery"

\* C5: a new flow that gets only normal-ack evaluations has cwnd 2, 4, 8,
\* 16, 32, 64 after hop-entries 1..6, is in slow_start through the 5th and
\* in congestion_avoidance with cwnd exactly 64 after the 6th.
C5_SlowStartDoubling ==
    (hist.only_ack /\ hist.evals \in 1..6) =>
        /\ packets[1].cwnd = RInt(<<2, 4, 8, 16, 32, 64>>[hist.evals])
        /\ packets[1].phase = IF hist.evals < 6 THEN "slow_start"
                              ELSE "congestion_avoidance"

\* the sixth normal ack
C5_Witness ==
    /\ hist.op = "evaluate"
    /\ hist.only_ack
    /\ hist.evals = 6
    /\ packets[1].cwnd = RInt(64)
    /\ packets[1].phase = "congestion_avoidance"

\* C14: in every reachable state, also after set_congestion_algorithm was
\* called with the flow in flight, a flow is in phase fast_recovery only
\* while the selected algorithm is reno.
C14_FastRecoveryOnlyUnderReno ==
    \A i \in 1..Len(packets) :
        packets[i].phase = "fast_recovery" => congestion_algorithm = "reno"

--------------------------------------------------------------------------
(* Properties of dijkstra_shortest_path, checked under PathSpec *)

\* b is in a's neighbour list
Adjacent(ns, a, b) == b \in Range(ns[a].connections)

\* the nodes that can be reached from the nodes of S along connections
RECURSIVE ReachableFrom(_, _)
ReachableFrom(ns, S) ==
    LET N == S \cup {b \in NodeIds(ns) : \E a \in S : Adjacent(ns, a, b)}
    IN IF N = S THEN S ELSE ReachableFrom(ns, N)

Reachable(ns, s, d) == d \in ReachableFrom(ns, {s})

\* the sum of the latencies of the nodes of a path except its last
RECURSIVE LeavingCost(_, _)
LeavingCost(ns, path) ==
    IF Len(path) <= 1 THEN 0
    ELSE ns[Head(path)].latency + LeavingCost(ns, Tail(path))

\* every path without a repeated node that extends p to d
RECURSIVE SimplePaths(_, _, _)
SimplePaths(ns, p, d) ==
    IF p[Len(p)] = d THEN {p}
    ELSE UNION {SimplePaths(ns, Append(p, b), d) :
                    b \in {x \in NodeIds(ns) : /\ Adjacent(ns, p[Len(p)], x)
                                               /\ x \notin Range(p)}}

\* the topology with the latency of node k set to lat
WithLatency(ns, k, lat) == [ns EXCEPT ![k].latency = lat]

Called == hist.op = "find_path"

\* C7: for a reachable pair (s, d) the call returns a node sequence from s to
\* d whose consecutive nodes are adjacent, with a cost equal to the sum of
\* the latencies of its nodes except d.
C7_PathAndCost ==
    (Called /\ Reachable(nodes, hist.source, hist.destination)) =>
        /\ route.found
        /\ Len(route.path) >= 2
        /\ route.path[1] = hist.source
        /\ route.path[Len(route.path)] = hist.destination
        /\ \A i \in 1..(Len(route.path) - 1) :
              Adjacent(nodes, route.path[i], route.path[i + 1])
        /\ route.cost = LeavingCost(nodes, route.path)

\* the linear topology A-B-C with latency(A) = 10 and latency(B) = 20:
\* the path is [A, B, C] and the cost 30
C7_Witness ==
    /\ Called
    /\ Len(nodes) = 3
    /\ nodes[1].latency = 10 /\ nodes[2].latency = 20
    /\ nodes[1].connections = <<2>>
    /\ nodes[2].connections = <<1, 3>>
    /\ nodes[3].connections = <<2>>
    /\ hist.source = 1 /\ hist.destination = 3
    /\ route = [found |-> TRUE, path |-> <<1, 2, 3>>, cost |-> 30]

\* C8: the returned path is a minimum-cost path: no path from s to d has a
\* smaller sum of leaving-node latencies.
C8_MinimumCost ==
    (Called /\ route.found) =>
        \A q \in SimplePaths(nodes, <<hist.source>>, hist.destination) :
            route.cost <= LeavingCost(nodes, q)

\* two routes of different cost between the pair, the cheaper one returned
C8_Witness ==
    /\ Called
    /\ route.found
    /\ \E q \in SimplePaths(nodes, <<hist.source>>, hist.destination) :
          /\ Len(q) = Len(route.path)
          /\ route.cost < LeavingCost(nodes, q)

\* C9: raising the latency of any single node never lowers the cost returned
\* for the pair.
C9_CostMonotone ==
    (Called /\ route.found) =>
        \A k \in NodeIds(nodes) :
            \A lat \in {l \in LatencyValues : l > nodes[k].latency} :
                \A r \in dijkstra_shortest_path(WithLatency(nodes, k, lat),
                                                hist.source, hist.destination) :
                    r.found /\ r.cost >= route.cost

\* raising one node leaves the cost as it is (another route of the same
\* cost remains) and raising another raises it
C9_Witness ==
    /\ Called
    /\ route.found
    /\ \E k \in NodeIds(nodes) :
          \E lat \in {l \in LatencyValues : l > nodes[k].latency} :
              \E r \in dijkstra_shortest_path(WithLatency(nodes, k, lat),
                                              hist.source, hist.destination) :
                  r.cost > route.cost
    /\ \E k \in Range(route.path) \ {hist.destination} :
          \E lat \in {l \in LatencyValues : l > nodes[k].latency} :
              \E r \in dijkstra_shortest_path(WithLatency(nodes, k, lat),
                                              hist.source, hist.destination) :
                  r.cost = route.cost

\* C10: the call fails (no path, infinite cost) exactly when the destination
\* cannot be reached from the source in the topology as it stands at the call.
C10_FailsIffUnreachable ==
    Called =>
        /\ route.found <=> Reachable(nodes, hist.source, hist.destination)
        /\ ~route.found => route = NoPath
        /\ route.found => route.path # <<>> /\ route.cost < Infinity

\* a failed call in a disconnected topology that has connections, the source
\* among the connected nodes
C10_Witness ==
    /\ Called
    /\ ~route.found
    /\ nodes[hist.source].connections # <<>>
    /\ nodes[hist.destination].connections # <<>>

--------------------------------------------------------------------------
(* Properties of the simulator, checked under TrafficSpec and SimSpec *)

\* the simulation state a failed or discarded request has to leave alone
Untouched ==
    /\ packets' = packets
    /\ nodes' = nodes
    /\ packet_events' = packet_events
    /\ packet_counter' = packet_counter
    /\ routing_stats' = routing_stats

\* C11: in every reachable state, under any interleaving of flow generation,
\* manual sends, decay ticks and load-preset changes, every node's
\* congestion accumulator is in [0, 10] (0..100 tenths).
C11_CongestionInRange ==
    \A n \in DOMAIN nodes :
        nodes[n].congestion >= 0 /\ nodes[n].congestion <= 100

\* a flow spawned under the heavy preset through nodes already at 10.0
C11_Witness ==
    /\ hist.op = "start_packet_generation"
    /\ hist.outcome = "created"
    /\ traffic_load = "heavy"
    /\ Len(packets) = InitialMaxPackets
    /\ nodes[1].congestion = 100

\* C15: a manual send between two existing, distinct nodes with no path
\* between them fails and leaves the simulation state as it was: the active
\* flows, node congestion, event log, id counter, routing statistics and the
\* running/paused status are all unchanged.
C15_NoPathLeavesState ==
    [][(hist'.op = "send_manual_packet" /\ hist'.outcome = "no_path") =>
          /\ Untouched
          /\ simulation_running' = simulation_running]_vars

\* C16: a manual send whose source equals its destination, or whose source
\* or destination is not a node of the topology, is rejected before any
\* state mutation: no flow is created and the running flag, the manual-mode
\* flag, the event log, congestion and counters are unchanged.
C16_InvalidEndpointsRejected ==
    [][(hist'.op = "send_manual_packet"
            /\ hist'.outcome \in {"invalid", "not_found"}) =>
          /\ Untouched
          /\ simulation_running' = simulation_running
          /\ manual_packet_mode' = manual_packet_mode
          /\ pending' = pending]_vars

\* a send naming a node that is not in the topology, rejected while the
\* simulation runs with flows in flight
C16_Witness ==
    /\ hist.op = "send_manual_packet"
    /\ hist.outcome = "not_found"
    /\ simulation_running
    /\ packets # <<>>

C20_AtCapDiscarded ==
    [][(hist'.op = "start_packet_generation" /\ simulation_running
            /\ Len(packets) >= max_packets) =>
          /\ Untouched
          /\ pending' = pending
          /\ hist'.outcome = "at_cap"]_vars

\* a tick discarded with more flows in flight than the cap of the preset
C20_Witness ==
    /\ hist.op = "start_packet_generation"
    /\ hist.outcome = "at_cap"
    /\ Len(packets) > max_packets

\* C13: for every active flow the path has length >= 2, current_index is in
\* [0, len(path) - 1] and the progress seen between ticks is in [0, 1).
C13_FlowPosition ==
    \A i \in DOMAIN packets :
        /\ Len(packets[i].path) >= 2
        /\ packets[i].current_index >= 0
        /\ packets[i].current_index <= Len(packets[i].path) - 1
        /\ packets[i].progress >= 0
        /\ packets[i].progress < 4000

\* a redraw has completed the hop of a flow, which stands at its last node,
\* while another flow is part way along its hop
C13_Witness ==
    /\ hist.op = "draw_network"
    /\ \E i \in DOMAIN packets :
          /\ packets[i].current_index = Len(packets[i].path) - 1
          /\ packets[i].progress = 0
    /\ \E i \in DOMAIN packets :
          /\ packets[i].current_index = 0
          /\ packets[i].progress > 0

\* C18: once the simulation is paused, with no manual flow in flight, no
\* driver changes the simulation state until it is resumed: no flow moves or
\* changes cwnd or phase, no node's congestion changes and no flow is
\* created, whatever pending timer callbacks fire and whatever redraw
\* requests arrive.
C18_PausedIsFrozen ==
    [][(/\ ~simulation_running /\ ~manual_packet_mode
        /\ ~simulation_running' /\ ~manual_packet_mode'
        /\ hist'.op # "send_manual_packet") =>
          /\ packets' = packets
          /\ nodes' = nodes
          /\ packet_counter' = packet_counter]_vars


\* the node b is in the neighbour list of the node a
Neighbour(a, b) ==
    IF a = Stale THEN b \in Range(stale_connections)
    ELSE b \in Range(nodes[a].connections)

\* C12: in every topology built by adding nodes, connecting, generating and
\* resetting, b is in a's neighbour list exactly when a is in b's (the node a
\* removed by a reset and still connected to included), no node is in its
\* own list and no list holds a node twice
C12_AdjacencySymmetric ==
    /\ \A a \in NodeIds(nodes) :
          /\ \A b \in Range(nodes[a].connections) :
                /\ b \in NodeIds(nodes) \cup {Stale}
                /\ b # a
                /\ Neighbour(b, a)
          /\ Cardinality(Range(nodes[a].connections)) = Len(nodes[a].connections)
    /\ \A b \in Range(stale_connections) :
          /\ b \in NodeIds(nodes)
          /\ Neighbour(b, Stale)
    /\ Cardinality(Range(stale_connections)) = Len(stale_connections)

\* two nodes connected by clicks after the topology was reset with a first
\* click pending, one of them connected to the node that was removed
C12_Witness ==
    /\ hist.op = "click"
    /\ \E a, b \in NodeIds(nodes) :
          /\ a # b
          /\ Neighbour(a, b)
          /\ Neighbour(a, Stale)
          /\ Neighbour(Stale, a)


--------------------------------------------------------------------------
(* Properties of single evaluations, checked under FlowSpec *)

\* the fields of a flow the evaluation of a hop-entry can write, rtt aside
Windows(packet) ==
    <<packet.cwnd, packet.ssthresh, packet.phase, packet.lost, packet.retransmitted>>

\* C24: every evaluation hands exactly one classified event to the
\* recorder, whichever case it takes.
C24_OneEventPerEvaluation ==
    hist.op = "evaluate" => Len(hist.events) = 1

\* C25: after an evaluation completes no flow has the phase fast_retransmit.
C25_FastRetransmitTransient ==
    \A i \in 1..Len(packets) : packets[i].phase # "fast_retransmit"

\* the third duplicate signal of a run fired fast retransmit on a flow in
\* congestion avoidance, which the handler left in its stable phase
C25_Witness ==
    /\ hist.op = "evaluate"
    /\ hist.events = <<"fast_retransmit">>
    /\ hist.before.phase = "congestion_avoidance"
    /\ hist.before.dup_ack_count = DupAckLimit - 1
    /\ packets[1].phase \in {"fast_recovery", "slow_start"}

\* C26: an evaluation with congestion in (7, 9] that leaves the duplicate
\* counter below 3 changes only the duplicate counter: cwnd, ssthresh, phase,
\* rtt, lost and retransmitted are unchanged.
C26_DuplicateBelowLimit ==
    (/\ hist.op = "evaluate"
     /\ nodes[1].congestion > DupAckThreshold
     /\ nodes[1].congestion <= TimeoutThreshold
     /\ hist.before.dup_ack_count + 1 < DupAckLimit) =>
        /\ Windows(packets[1]) = Windows(hist.before)
        /\ packets[1].rtt = hist.before.rtt

\* C27: under reno an evaluation with congestion in (5, 7] on a flow in
\* fast_recovery adds exactly 1 to cwnd and leaves phase, ssthresh, the
\* duplicate counter and the lost and retransmitted flags unchanged; a flow
\* in any other phase takes the normal ACK path under the same congestion.
C27_Inflation ==
    (/\ hist.op = "evaluate"
     /\ hist.algorithm = "reno"
     /\ nodes[1].congestion > InflationThreshold
     /\ nodes[1].congestion <= DupAckThreshold) =>
        IF hist.before.phase = "fast_recovery"
        THEN /\ packets[1] = [hist.before EXCEPT !.cwnd = RAdd(@, RInt(1)),
                                                 !.rtt = packets[1].rtt]
             /\ hist.events = <<"cwnd_inflation">>
        ELSE /\ packets[1] = normal_ack([hist.before EXCEPT !.rtt = packets[1].rtt],
                                        "reno").packet
             /\ hist.events[Len(hist.events)] = "ack_received"
             /\ packets[1].dup_ack_count = 0

\* a window inflated with a duplicate signal counted since fast retransmit
C27_Witness ==
    /\ hist.op = "evaluate"
    /\ hist.algorithm = "reno"
    /\ hist.events = <<"cwnd_inflation">>
    /\ hist.before.dup_ack_count > 0
    /\ packets[1].phase = "fast_recovery"

\* C28: under reno a normal ACK evaluation (congestion <= 5) on a flow in
\* fast_recovery sets cwnd to the current ssthresh, moves the flow to
\* congestion_avoidance, resets the duplicate counter to 0 and applies no
\* further growth in the same evaluation.
C28_ExitFastRecovery ==
    (/\ hist.op = "evaluate"
     /\ hist.algorithm = "reno"
     /\ nodes[1].congestion <= InflationThreshold
     /\ hist.before.phase = "fast_recovery") =>
        /\ packets[1].cwnd = hist.before.ssthresh
        /\ packets[1].ssthresh = hist.before.ssthresh
        /\ packets[1].phase = "congestion_avoidance"
        /\ packets[1].dup_ack_count = 0

\* fast recovery left with an inflated window and a duplicate signal counted
C28_Witness ==
    /\ hist.op = "evaluate"
    /\ hist.algorithm = "reno"
    /\ hist.events = <<"exit_fast_recovery", "ack_received">>
    /\ hist.before.dup_ack_count > 0
    /\ RLess(hist.before.ssthresh, hist.before.cwnd)
    /\ packets[1].cwnd = hist.before.ssthresh


--------------------------------------------------------------------------
(* Properties of the recorder, checked under TraceSpec *)

\* the kinds of event that are recorded whatever the sampling draw
AlwaysRecorded(event_type) ==
    event_type \in {"created", "manual_created", "delivered", "dropped",
                    "timeout", "fast_retransmit", "exit_fast_recovery"}

\* the kinds of the events the last step appended to the log
AppendedKinds ==
    [i \in 1..(Len(packet_events) - Len(hist.log)) |->
        packet_events[Len(hist.log) + i].event_type]

--------------------------------------------------------------------------
(* Properties of the advance tick, checked under SimSpec *)

\* the flow is at the last index of its path
AtLastIndex(packet) == packet.current_index >= Len(packet.path) - 1

\* the evaluations of the flow id among the calls a step made
EvaluationsOf(calls, id) == {k \in DOMAIN calls : calls[k].packet_id = id}

\* the delivered events of the flow id in a log
DeliveredEvents(log, id) ==
    {k \in DOMAIN log : log[k].event_type = "delivered" /\ log[k].packet_id = id}

C29_DeliveredOnceAndRemoved ==
    [][/\ hist'.drawn =>
             /\ \A i \in DOMAIN packets :
                   AtLastIndex(packets[i]) =>
                      /\ \A j \in DOMAIN packets' :
                            packets'[j].packet_id # packets[i].packet_id
                      /\ Cardinality(DeliveredEvents(packet_events',
                                                     packets[i].packet_id))
                           = Cardinality(DeliveredEvents(packet_events,
                                                         packets[i].packet_id)) + 1
             /\ \A j \in DOMAIN packets' :
                   ~(AtLastIndex(packets'[j]) /\ packets'[j].completed)
       /\ \A id \in 1..packet_counter' :
             Cardinality(DeliveredEvents(packet_events', id)) <= 1]_vars

\* a tick delivered one flow while another stays in the active set
C29_Witness ==
    /\ hist.drawn
    /\ packets # <<>>
    /\ \E id \in 1..packet_counter :
          /\ DeliveredEvents(packet_events, id) # {}
          /\ \A j \in DOMAIN packets : packets[j].packet_id # id


--------------------------------------------------------------------------
(* Properties of the flow ids, checked under IdSpec *)

\* the ids of the flows dropped since the last reset: the dropped events
DroppedIds ==
    {packet_events[k].packet_id :
        k \in {e \in DOMAIN packet_events : packet_events[e].event_type = "dropped"}}

\* C22: the flows of the active set, random or manual, have ids that
\* increase in creation order, differ from each other and from the id of
\* every flow dropped since the last reset, and no id is ahead of the
\* counter the next flow takes its id from.
C22_UniqueIncreasingIds ==
    /\ \A i, j \in DOMAIN packets :
          i < j => packets[i].packet_id < packets[j].packet_id
    /\ \A i \in DOMAIN packets :
          /\ packets[i].packet_id \in 1..packet_counter
          /\ packets[i].packet_id \notin DroppedIds
    /\ DroppedIds \subseteq 1..packet_counter
    /\ Cardinality(DroppedIds)
         = Cardinality({e \in DOMAIN packet_events :
                           packet_events[e].event_type = "dropped"})

\* on a generated topology, so after a reset that followed a random flow and
\* a dropped one: the second flow admitted since the reset
C22_Witness ==
    /\ Len(nodes) > 3
    /\ hist.ticks >= 2
    /\ hist.op = "send_manual_packet"
    /\ hist.outcome = "created"
    /\ Len(packets) = 2
    /\ packet_counter = 2


--------------------------------------------------------------------------
(* Delivery, checked under DeliverySpec *)

\* the flow id is in the active set
Active(id) == \E i \in DOMAIN packets : packets[i].packet_id = id

\* C30: while the advance tick keeps firing every flow of the active set is
\* eventually delivered and removed, whatever generation and decay do to the
\* congestion of the nodes on its path.
C30_EventuallyDelivered ==
    \A id \in 1..MaxTicks :
        Active(id) ~> (~Active(id) /\ DeliveredEvents(packet_events, id) # {})

\* every flow delivered, the last one created by a generation callback that
\* came between the ticks
C30_Witness ==
    /\ hist.op = "draw_network"
    /\ packets = <<>>
    /\ packet_counter = MaxTicks
    /\ \A id \in 1..MaxTicks : DeliveredEvents(packet_events, id) # {}


--------------------------------------------------------------------------
(* Lost flows, checked under LossSpec *)

\* C31: a flow marked lost by a timeout does not remain in the active set
\* after the tick that follows: a tick that runs the flow loop leaves no flow
\* in the active set that was marked lost before it.
C31_LostFlowsRemoved ==
    [][hist'.drawn =>
          \A i \in DOMAIN packets :
              packets[i].lost =>
                 \A j \in DOMAIN packets' :
                     packets'[j].packet_id # packets[i].packet_id]_vars


--------------------------------------------------------------------------
(* The order of extraction among ties, checked under PathSpec *)

\* among the unvisited nodes of minimum distance, the one inserted first
first_inserted(distances, unvisited) ==
    CHOOSE n \in min_unvisited(distances, unvisited) :
        \A k \in min_unvisited(distances, unvisited) : n <= k

\* the search that extracts the first inserted node among ties
RECURSIVE first_inserted_loop(_, _, _, _, _)
first_inserted_loop(ns, distances, previous, unvisited, destination) ==
    IF unvisited = {} THEN NoPath
    ELSE LET current == first_inserted(distances, unvisited)
         IN IF distances[current] = Infinity THEN NoPath
            ELSE IF current = destination
            THEN [found |-> TRUE,
                  path |-> reconstruct_path(previous, current),
                  cost |-> distances[destination]]
            ELSE LET r == relax(ns, distances, previous, unvisited \ {current}, current)
                 IN first_inserted_loop(ns, r.distances, r.previous,
                                        unvisited \ {current}, destination)

\* the route between source and destination under that order of extraction
first_inserted_route(ns, source, destination) ==
    first_inserted_loop(ns,
                        [n \in NodeIds(ns) |-> IF n = source THEN 0 ELSE Infinity],
                        [n \in NodeIds(ns) |-> 0],
                        NodeIds(ns),
                        destination)

\* C32: among unvisited nodes that share the minimum tentative distance the
\* search extracts the one inserted into the topology first, so the route a
\* call returns is the one that order of extraction gives, on every call.
C32_TiesByInsertionOrder ==
    hist.op = "find_path" =>
        route = first_inserted_route(nodes, hist.source, hist.destination)


--------------------------------------------------------------------------
(* The guard of draw_network, checked under GuardSpec *)

\* C33: draw_network and the flow loop it runs are never entered while a
\* call of it is executing: at most one call is past the guard, a call made
\* while one executes returns at the guard and touches no flow, no timer and
\* no flag, and when the outer call has ended, on whichever way out, the
\* guard flag is clear.
C33_NoReentry ==
    [][/\ Len(draw_stack') <= 1
       /\ draw_stack' = <<>> => ~redraw_scheduled'
       /\ (draw_stack # <<>> /\ hist'.op = "draw_network") =>
             /\ hist'.outcome = "guarded"
             /\ packets' = packets
             /\ packet_events' = packet_events
             /\ pending' = pending
             /\ redraw_scheduled' = redraw_scheduled
             /\ draw_stack' = draw_stack]_vars

\* a call that came in after the flow loop of the outer call had advanced a
\* flow, turned away at the guard
C33_Witness ==
    /\ hist.op = "draw_network"
    /\ hist.outcome = "guarded"
    /\ hist.depth = 1
    /\ draw_stack = <<"_draw_nodes">>
    /\ redraw_scheduled
    /\ \E i \in DOMAIN packets : packets[i].progress > 0


--------------------------------------------------------------------------
(* The severity band of a node, checked under FlowSpec *)

\* C34: the severity band reported for a node depends on its accumulator
\* only and agrees with the thresholds of the state machine: low up to 1,
\* medium above 1 up to 3, high above 3 up to 7, critical only above 7.
C34_SeverityBands ==
    \A n \in DOMAIN nodes :
        get_congestion_level(nodes[n]) =
            IF nodes[n].congestion <= LowLevel THEN "low"
            ELSE IF nodes[n].congestion <= MediumLevel THEN "medium"
            ELSE IF nodes[n].congestion <= DupAckThreshold THEN "high"
            ELSE "critical"


--------------------------------------------------------------------------
(* The routing statistics, checked under SimSpec *)

\* C35: the running count of the routing statistics equals the number of
\* flows delivered since the last reset, and the recent-path history holds
\* at most 100 entries.
C35_CountsDelivered ==
    /\ routing_stats.total_packets
         = Cardinality({k \in DOMAIN packet_events :
                           packet_events[k].event_type = "delivered"})
    /\ Len(routing_stats.path_history) <= MaxPathHistory


--------------------------------------------------------------------------
(* Admission and decay, checked under TrafficSpec *)

\* C36: admitting a flow, random or manual, raises the accumulator of every
\* node on its path by the constant of the current load (light 0.5, medium
\* 1, heavy 2), capped at 10, and leaves every node off the path as it was.
C36_AdmissionCongests ==
    [][(hist'.op \in {"start_packet_generation", "send_manual_packet"}
            /\ hist'.outcome = "created") =>
          LET path == packets'[Len(packets')].path
              raised == IF traffic_load = "light" THEN 5
                        ELSE IF traffic_load = "medium" THEN 10
                        ELSE 20
          IN /\ Len(nodes') = Len(nodes)
             /\ \A n \in DOMAIN nodes :
                   IF n \in Range(path)
                   THEN nodes'[n] =
                          [nodes[n] EXCEPT !.congestion =
                              IF @ + raised < 100 THEN @ + raised ELSE 100]
                   ELSE nodes'[n] = nodes[n]]_vars

\* a manual flow admitted under light load over two nodes that a medium
\* admission had raised before, the third node off every path
C36_Witness ==
    /\ hist.op = "send_manual_packet"
    /\ hist.outcome = "created"
    /\ traffic_load = "light"
    /\ nodes[1].congestion = 15
    /\ nodes[2].congestion = 15
    /\ nodes[3].congestion = 0

\* C37: a decay tick lowers the accumulator of every node by the rate of the
\* current load (0.1 under heavy, 0.2 otherwise), never below 0, and changes
\* no flow; a node at 0 stays at 0.
C37_DecayLowers ==
    [][(hist'.op = "decay_congestion" /\ simulation_running) =>
          LET rate == IF traffic_load = "heavy" THEN 1 ELSE 2
          IN /\ Len(nodes') = Len(nodes)
             /\ \A n \in DOMAIN nodes :
                   nodes'[n] =
                      [nodes[n] EXCEPT !.congestion =
                          IF @ - rate > 0 THEN @ - rate ELSE 0]
             /\ packets' = packets
             /\ packet_events' = packet_events
             /\ packet_counter' = packet_counter]_vars

\* a decay tick under heavy load that took a loaded node from 1.0 to 0.9
\* and left the idle node at 0
C37_Witness ==
    /\ hist.op = "decay_congestion"
    /\ simulation_running
    /\ traffic_load = "heavy"
    /\ nodes[1].congestion = 9
    /\ nodes[3].congestion = 0
    /\ packets # <<>>


--------------------------------------------------------------------------
(* Slow start below the threshold, checked under FlowSpec *)

\* C38: in every reachable state a flow in phase slow_start has cwnd
\* strictly below ssthresh: slow start is entered with cwnd = 1 and
\* ssthresh >= 2 only, and growth that reaches ssthresh leaves slow start
\* in the same evaluation.
C38_SlowStartBelowThreshold ==
    \A i \in DOMAIN packets :
        packets[i].phase = "slow_start" =>
            RLess(packets[i].cwnd, packets[i].ssthresh)

\* a flow that re-entered slow start, grew to the threshold a loss had set
\* and left slow start in that evaluation
C38_Witness ==
    /\ hist.op = "evaluate"
    /\ hist.before.phase = "slow_start"
    /\ RLess(hist.before.ssthresh, RInt(InitialSsthresh))
    /\ packets[1].phase = "congestion_avoidance"
    /\ packets[1].cwnd = packets[1].ssthresh


--------------------------------------------------------------------------
(* The periodic drivers, checked under SimSpec *)

\* the three periodic drivers
Drivers == {"draw_network", "decay_congestion", "start_packet_generation"}

\* C39: after any sequence of start/pause toggles, manual sends, topology
\* edits and redraw requests, each periodic driver has at most one pending
\* scheduled invocation.
C39_OnePendingPerDriver ==
    \A driver \in Drivers : CopiesIn(driver, pending) <= 1

\* C40: after a successful manual send issued while the simulation is not
\* running the flow-advancement driver is scheduled without a further user
\* action (so that the manual flow is advanced to its destination).
C40_ManualSendSchedulesAdvance ==
    [][(hist'.op = "send_manual_packet" /\ hist'.outcome = "created"
            /\ ~simulation_running) =>
          BagIn("draw_network", pending')]_vars

==========================================================================
